---- MODULE Spec2Model ----
(***************************************************************************)
(* Moral Maze session core: maze generation (core/maze.py), the session    *)
(* state (core/state.py) and the session controller (server/controller.py) *)
(***************************************************************************)
EXTENDS Integers, Sequences, FiniteSets, TLC

(***************************************************************************)
(* Bounds of the model                                                     *)
(***************************************************************************)
\* largest width / height handed to generate_maze in SpecMaze
MaxGenWidth == 3
MaxGenHeight == 3
\* Settings.maze_width / Settings.maze_height of the modelled session
maze_width == 3
maze_height == 1
\* the clock advances MaxTicks times
MaxTicks == 3
\* the controller is called from NThreads threads at once in SpecConc
NThreads == 2
\* the client of a session of SpecPlay sends at most MaxPlayKinds kinds of
\* request besides polling the state and moving the hero step by step
MaxPlayKinds == 2
\* the generator behind the random module has RandStates states, and
\* generate_maze is handed the seeds 0 .. MaxSeed
RandStates == 16
MaxSeed == 3
\* the session takes at most MaxDecisions answers
MaxDecisions == 2
\* the client of a session sends at most MaxKinds kinds of request besides
\* polling the state
MaxKinds == 1

(***************************************************************************)
(* Program state                                                           *)
(***************************************************************************)
VARIABLES
    width,      \* Maze.width
    height,     \* Maze.height
    walls,      \* Cell.walls of every cell: walls[<<x, y>>][direction]
    visited,    \* cells whose generation-time Cell.visited flag is set
    stack,      \* the explicit DFS stack of generate_maze
    decision_nodes,     \* the cells whose Cell.decision_node flag is set
    seed,       \* Maze.seed, the seed the maze was generated from
    rng,        \* the state of the generator behind the random module
    pc,         \* where the program is: "generate", "serve" or "restart"
    now,        \* the wall clock time.time() reads, in seconds
    state,      \* GameController.state, a GameState
    active_questions,   \* the keys of GameController._active_questions
    result,     \* what the last controller call returned or raised
    settings,   \* GameController.settings (Settings)
    used,       \* the kinds of request the client has sent so far
    threads,    \* the calls in flight: position, argument and locals of each
    lock,       \* the holder of GameController._lock, or NoThread
    saved       \* the save file at Settings.save_path: a snapshot, or NoFile

mazeVars == <<width, height, walls, visited, stack, decision_nodes, seed>>

concVars == <<threads, lock>>

vars == <<width, height, walls, visited, stack, decision_nodes, seed, rng, pc, now, state, active_questions, result, settings, used, threads, lock, saved>>

Max(a, b) == IF a >= b THEN a ELSE b

Min(a, b) == IF a <= b THEN a ELSE b

(***************************************************************************)
(* core/maze.py                                                            *)
(***************************************************************************)
Directions == {"north", "south", "east", "west"}

DIR_TO_DELTA == [d \in Directions |->
    CASE d = "north" -> <<0, -1>>
      [] d = "south" -> <<0, 1>>
      [] d = "east" -> <<1, 0>>
      [] d = "west" -> <<-1, 0>>]

OPPOSITE_DIRECTION == [d \in Directions |->
    CASE d = "north" -> "south"
      [] d = "south" -> "north"
      [] d = "east" -> "west"
      [] d = "west" -> "east"]

\* the grid built at maze.py:100
Cells(w, h) == (0 .. w - 1) \X (0 .. h - 1)

\* Maze.get_cell: the cell exists iff it is in bounds
InBounds(w, h, x, y) == 0 <= x /\ x < w /\ 0 <= y /\ y < h

\* Cell(x, y): all four walls closed
ClosedCell == [d \in Directions |-> TRUE]

Shift(c, d, n) == <<c[1] + n * DIR_TO_DELTA[d][1], c[2] + n * DIR_TO_DELTA[d][2]>>

\* Maze.get_neighbors: the in-bounds neighbours of a cell, with the direction
get_neighbors(w, h, c) ==
    {nd \in Cells(w, h) \X Directions :
        nd[1] = Shift(c, nd[2], 1)}

\* the list comprehension of maze.py:120-124
unvisited_neighbors(w, h, vis, c) ==
    {nd \in get_neighbors(w, h, c) : nd[1] \notin vis}

\* a plausible slip: only the current cell's side of the wall is cleared
CarveOneSide(wl, c, d) ==
    [wl EXCEPT ![c][d] = FALSE]

\* maze.py:131-132: clear the wall on both sides
Carve(wl, c, d) ==
    [wl EXCEPT ![c][d] = FALSE,
               ![Shift(c, d, 1)][OPPOSITE_DIRECTION[d]] = FALSE]

\* Cell.opening_count
opening_count(wl, c) == Cardinality({d \in Directions : ~wl[c][d]})

\* maze.py:141-160: the sets of decision nodes the marking pass can leave.
\* Every cell with 3 or more openings is marked or not (random.random() < 0.3);
\* with fewer than 5 marked, the first 5 - len(decision_nodes) of the shuffled
\* candidates (2 or more openings, not marked) are marked too
mark_decision_nodes(w, h, wl) ==
    UNION {
        LET candidates == {c \in Cells(w, h) : opening_count(wl, c) >= 2 /\ c \notin marked}
            deficit == IF Cardinality(marked) < 5 THEN 5 - Cardinality(marked) ELSE 0
            take == Min(deficit, Cardinality(candidates))
        IN  {marked \cup fill : fill \in {F \in SUBSET candidates : Cardinality(F) = take}}
        : marked \in SUBSET {c \in Cells(w, h) : opening_count(wl, c) >= 3}}

\* Maze.can_move
can_move(wl, c, d) == ~wl[c][d]

(***************************************************************************)
(* core/state.py: GameState                                                *)
(***************************************************************************)
\* an attribute GameState.__init__ does not create (hasattr is false) until the
\* controller's _sync_* helpers or a first assignment create it
Absent == -1

\* shield_active_until = None
None == 0

\* Settings.start_age as Settings.__init__ sets it
DEFAULT_START_AGE == 10

ZeroValues ==
    [empathy |-> 0, integrity |-> 0, courage |-> 0,
     responsibility |-> 0, independence |-> 0]

\* GameState() without save data, constructed at clock t (state.py:53-99)
GameState(t) ==
    [age |-> 10,
     history |-> << >>,
     total_growth |-> 0,
     hero_health |-> 100,
     value_dimensions |-> ZeroValues,
     growth_history |-> << >>,
     jump_charges |-> 2,
     jump_bonus_awarded |-> 0,
     ally_jump_charges |-> 2,
     ally_last_jump_bonus_ts |-> t,
     ally_freeze_charges |-> 0,
     ally_freeze_initial_bonus_awarded |-> FALSE,
     ally_freeze_last_bonus_ts |-> t,
     ally_expand_charges |-> 0,
     ally_expand_initial_bonus_awarded |-> FALSE,
     ally_expand_last_bonus_ts |-> t,
     ally_lift_charges |-> 0,
     ally_lift_initial_bonus_awarded |-> FALSE,
     ally_lift_last_bonus_ts |-> t,
     ally_blink_charges |-> 1,
     ally_blink_last_bonus_ts |-> t,
     ally_position |-> << >>,
     ally_trap_charges |-> 1,
     ally_trap_last_bonus_ts |-> t,
     traps |-> << >>,
     hero_escape_charges |-> 0,
     hero_escape_last_age |-> 0,
     active_decisions |-> {},
     current_position |-> <<0, 0>>,
     visited_nodes |-> {},
     ally_dissolve_charges |-> Absent,
     ally_dissolve_last_bonus_ts |-> Absent,
     ally_dissolve_max_charges |-> Absent,
     dissolved_nodes |-> {},
     shield_charges |-> Absent,
     shield_last_age |-> Absent,
     shield_active_until |-> None]

\* there is no file at Settings.save_path
NoFile == [file |-> "none"]

\* Settings.save_path: a path open() can write, or one it cannot
SavePath == "data/save.json"

NoSavePath == "/proc/save.json"

\* the attributes GameState.to_save_data reads (state.py:132-167); stage is a
\* function of age, and seed does not change within a session
SavedFields ==
    {"age", "history", "value_dimensions", "growth_history", "total_growth",
     "jump_charges", "jump_bonus_awarded", "ally_jump_charges", "ally_last_jump_bonus_ts",
     "ally_freeze_charges", "ally_freeze_initial_bonus_awarded", "ally_freeze_last_bonus_ts",
     "ally_expand_charges", "ally_expand_initial_bonus_awarded", "ally_expand_last_bonus_ts",
     "ally_lift_charges", "ally_lift_initial_bonus_awarded", "ally_lift_last_bonus_ts",
     "ally_blink_charges", "ally_blink_last_bonus_ts", "ally_position",
     "ally_trap_charges", "ally_trap_last_bonus_ts", "traps", "hero_health",
     "hero_escape_charges", "hero_escape_last_age", "shield_charges", "shield_last_age",
     "shield_active_until", "active_decisions"}

\* GameState.to_save_data: the snapshot projection of the state
to_save_data(st) == [k \in SavedFields |-> st[k]]

\* save.save_now(state, self.settings.save_path): the file it leaves; open()
\* raises for a path that cannot be written and to_save_data raises
\* AttributeError for a state without the shield attributes, save_now catches
\* it and the file stays as it was (save.py:55-65)
save_now(st, file) ==
    IF \/ settings.save_path = NoSavePath
       \/ st.shield_charges = Absent
       \/ st.shield_last_age = Absent
    THEN file
    ELSE to_save_data(st)

\* the file after a handler that called save_now on the states of saves (none
\* when it returned before the call)
Saved(saves, file) == IF saves = << >> THEN file ELSE save_now(saves[1], file)

\* getattr(self.state, name, default)
getattr(v, default) == IF v = Absent THEN default ELSE v

\* GameState.mark_node_visited
mark_node_visited(st, c) ==
    [st EXCEPT !.visited_nodes = @ \cup {c}]

\* GameState.apply_growth (the stage is recomputed from the age)
apply_growth(st, delta) ==
    [st EXCEPT !.age = Max(10, st.age + delta),
               !.total_growth = st.total_growth + delta]

\* ValueDimensions.add_delta through GameState.apply_value_delta
apply_value_delta(st, d) ==
    [st EXCEPT !.value_dimensions =
        [k \in DOMAIN ZeroValues |-> st.value_dimensions[k] + d[k]]]

(***************************************************************************)
(* server/controller.py: time-gated regeneration passes.  Each takes the   *)
(* session state and the value t that time.time() returns in the pass.     *)
(***************************************************************************)
ALLY_JUMP_CAP == 4
ALLY_JUMP_INTERVAL == 15
FREEZE_CAP == 3
EXPAND_CAP == 5
LIFT_CAP == 2
BLINK_CAP == 2
TRAP_CAP == 2
DISSOLVE_DEFAULT_CAP == 2
SHIELD_CAP == 1

\* a plausible slip: the timer is reset to the time of the check
ReplenishAllyJumpResetToNow(st, t) ==
    LET elapsed == t - st.ally_last_jump_bonus_ts
        bonus == elapsed \div ALLY_JUMP_INTERVAL
    IN  IF elapsed >= ALLY_JUMP_INTERVAL
        THEN [st EXCEPT
                !.ally_jump_charges = Min(ALLY_JUMP_CAP, Max(0, st.ally_jump_charges) + bonus),
                !.ally_last_jump_bonus_ts = t]
        ELSE st

\* a plausible slip: the cap is left out
ReplenishAllyJumpNoCap(st, t) ==
    LET elapsed == t - st.ally_last_jump_bonus_ts
        bonus == elapsed \div ALLY_JUMP_INTERVAL
    IN  IF elapsed >= ALLY_JUMP_INTERVAL
        THEN [st EXCEPT
                !.ally_jump_charges = Max(0, st.ally_jump_charges) + bonus,
                !.ally_last_jump_bonus_ts = st.ally_last_jump_bonus_ts + bonus * ALLY_JUMP_INTERVAL]
        ELSE st

\* _replenish_ally_jump_charges
_replenish_ally_jump_charges(st, t) ==
    LET elapsed == t - st.ally_last_jump_bonus_ts
        bonus == elapsed \div ALLY_JUMP_INTERVAL
    IN  IF elapsed >= ALLY_JUMP_INTERVAL
        THEN [st EXCEPT
                !.ally_jump_charges = Min(ALLY_JUMP_CAP, Max(0, st.ally_jump_charges) + bonus),
                !.ally_last_jump_bonus_ts = st.ally_last_jump_bonus_ts + bonus * ALLY_JUMP_INTERVAL]
        ELSE st

\* _replenish_freeze_charges
_replenish_freeze_charges(st, t) ==
    LET last_ts == st.ally_freeze_last_bonus_ts
        elapsed == t - last_ts
        gained == elapsed \div 30
    IN  IF ~st.ally_freeze_initial_bonus_awarded
        THEN IF t - last_ts >= 10
             THEN [st EXCEPT
                     !.ally_freeze_charges = Min(FREEZE_CAP, Max(0, st.ally_freeze_charges) + 2),
                     !.ally_freeze_initial_bonus_awarded = TRUE,
                     !.ally_freeze_last_bonus_ts = t]
             ELSE st
        ELSE IF elapsed >= 30
             THEN [st EXCEPT
                     !.ally_freeze_charges =
                        IF gained > 0
                        THEN Min(FREEZE_CAP, Max(0, st.ally_freeze_charges) + gained)
                        ELSE st.ally_freeze_charges,
                     !.ally_freeze_last_bonus_ts = last_ts + gained * 30]
             ELSE st

\* a plausible slip: a regular cycle is worth one charge instead of two
ReplenishExpandOnePerCycle(st, t) ==
    LET last_ts == st.ally_expand_last_bonus_ts
        elapsed == t - last_ts
        cycles == elapsed \div 20
    IN  IF ~st.ally_expand_initial_bonus_awarded
        THEN IF t - last_ts >= 10
             THEN [st EXCEPT
                     !.ally_expand_charges = Min(EXPAND_CAP, Max(0, st.ally_expand_charges) + 2),
                     !.ally_expand_initial_bonus_awarded = TRUE,
                     !.ally_expand_last_bonus_ts = t]
             ELSE st
        ELSE IF elapsed >= 20 /\ cycles > 0
             THEN [st EXCEPT
                     !.ally_expand_charges = Min(EXPAND_CAP, Max(0, st.ally_expand_charges) + cycles),
                     !.ally_expand_last_bonus_ts = last_ts + cycles * 20]
             ELSE st

\* _replenish_expand_charges
_replenish_expand_charges(st, t) ==
    LET last_ts == st.ally_expand_last_bonus_ts
        elapsed == t - last_ts
        cycles == elapsed \div 20
    IN  IF ~st.ally_expand_initial_bonus_awarded
        THEN IF t - last_ts >= 10
             THEN [st EXCEPT
                     !.ally_expand_charges = Min(EXPAND_CAP, Max(0, st.ally_expand_charges) + 2),
                     !.ally_expand_initial_bonus_awarded = TRUE,
                     !.ally_expand_last_bonus_ts = t]
             ELSE st
        ELSE IF elapsed >= 20 /\ cycles > 0
             THEN [st EXCEPT
                     !.ally_expand_charges = Min(EXPAND_CAP, Max(0, st.ally_expand_charges) + cycles * 2),
                     !.ally_expand_last_bonus_ts = last_ts + cycles * 20]
             ELSE st

\* a plausible slip: the initial bonus leaves the timestamp where it was
ReplenishLiftKeepsTick(st, t) ==
    LET last_ts == st.ally_lift_last_bonus_ts
        elapsed == t - last_ts
        gained == elapsed \div 20
    IN  IF ~st.ally_lift_initial_bonus_awarded
        THEN IF elapsed < 10
             THEN st
             ELSE [st EXCEPT
                     !.ally_lift_charges = Min(LIFT_CAP, Max(0, st.ally_lift_charges) + 1),
                     !.ally_lift_initial_bonus_awarded = TRUE]
        ELSE IF elapsed >= 20 /\ gained > 0
             THEN [st EXCEPT
                     !.ally_lift_charges = Min(LIFT_CAP, Max(0, st.ally_lift_charges) + gained),
                     !.ally_lift_last_bonus_ts = last_ts + gained * 20]
             ELSE st

\* _replenish_lift_charges
_replenish_lift_charges(st, t) ==
    LET last_ts == st.ally_lift_last_bonus_ts
        elapsed == t - last_ts
        gained == elapsed \div 20
    IN  IF ~st.ally_lift_initial_bonus_awarded
        THEN IF elapsed < 10
             THEN st
             ELSE [st EXCEPT
                     !.ally_lift_charges = Min(LIFT_CAP, Max(0, st.ally_lift_charges) + 1),
                     !.ally_lift_initial_bonus_awarded = TRUE,
                     !.ally_lift_last_bonus_ts = t]
        ELSE IF elapsed >= 20 /\ gained > 0
             THEN [st EXCEPT
                     !.ally_lift_charges = Min(LIFT_CAP, Max(0, st.ally_lift_charges) + gained),
                     !.ally_lift_last_bonus_ts = last_ts + gained * 20]
             ELSE st

\* _replenish_dissolve_charges
_replenish_dissolve_charges(st, t) ==
    LET last_ts == st.ally_dissolve_last_bonus_ts
        cap == getattr(st.ally_dissolve_max_charges, DISSOLVE_DEFAULT_CAP)
        elapsed == t - last_ts
        gained == elapsed \div 15
    IN  IF last_ts = Absent
        THEN [st EXCEPT !.ally_dissolve_last_bonus_ts = t]
        ELSE IF elapsed >= 15
             THEN [st EXCEPT
                     !.ally_dissolve_charges =
                        Min(cap, Max(0, getattr(st.ally_dissolve_charges, 1)) + gained),
                     !.ally_dissolve_last_bonus_ts = last_ts + gained * 15]
             ELSE st

\* _replenish_blink_charges
_replenish_blink_charges(st, t) ==
    LET last_ts == st.ally_blink_last_bonus_ts
        elapsed == t - last_ts
        gained == elapsed \div 20
    IN  IF elapsed >= 20
        THEN [st EXCEPT
                !.ally_blink_charges = Min(BLINK_CAP, Max(0, st.ally_blink_charges) + gained),
                !.ally_blink_last_bonus_ts = last_ts + gained * 20]
        ELSE st

\* _replenish_trap_charges
_replenish_trap_charges(st, t) ==
    LET last_ts == st.ally_trap_last_bonus_ts
        elapsed == t - last_ts
        gained == elapsed \div 20
    IN  IF elapsed >= 20
        THEN [st EXCEPT
                !.ally_trap_charges = Min(TRAP_CAP, Max(0, st.ally_trap_charges) + gained),
                !.ally_trap_last_bonus_ts = last_ts + gained * 20]
        ELSE st

(***************************************************************************)
(* server/controller.py: age-gated grants                                  *)
(***************************************************************************)
\* a plausible slip: the whole expected bonus is granted again on every pass
GrantJumpBonusNoCheckpoint(st, start_age) ==
    LET expected_bonus == Max(0, (st.age - start_age) \div 5)
    IN  IF expected_bonus > 0
        THEN [st EXCEPT !.jump_charges = Max(0, st.jump_charges) + expected_bonus,
                        !.jump_bonus_awarded = expected_bonus]
        ELSE st

\* _grant_jump_bonus_if_needed
_grant_jump_bonus_if_needed(st, start_age) ==
    LET expected_bonus == Max(0, (st.age - start_age) \div 5)
        bonus_delta == expected_bonus - st.jump_bonus_awarded
    IN  IF bonus_delta > 0
        THEN [st EXCEPT !.jump_charges = Max(0, st.jump_charges) + bonus_delta,
                        !.jump_bonus_awarded = expected_bonus]
        ELSE st

\* the while loop of _grant_escape_by_age
RECURSIVE EscapeLoop(_, _, _)
EscapeLoop(charges, last_age, current_age) ==
    IF current_age >= last_age + 10
    THEN EscapeLoop(Max(0, charges) + 1, last_age + 10, current_age)
    ELSE <<charges, last_age>>

\* _grant_escape_by_age
_grant_escape_by_age(st) ==
    LET r == EscapeLoop(st.hero_escape_charges, st.hero_escape_last_age, st.age)
    IN  [st EXCEPT !.hero_escape_charges = r[1], !.hero_escape_last_age = r[2]]

\* the while loop of _grant_shield_bonus_if_needed; the charge attribute is
\* only created when the loop body runs
RECURSIVE ShieldLoop(_, _, _)
ShieldLoop(charges, last_age, current_age) ==
    IF current_age >= last_age + 20
    THEN ShieldLoop(Min(SHIELD_CAP, Max(0, getattr(charges, 0)) + 1), last_age + 20, current_age)
    ELSE <<charges, last_age>>

\* _grant_shield_bonus_if_needed
_grant_shield_bonus_if_needed(st) ==
    LET r == ShieldLoop(st.shield_charges, getattr(st.shield_last_age, 0), st.age)
    IN  [st EXCEPT !.shield_charges = r[1], !.shield_last_age = r[2]]

(***************************************************************************)
(* server/controller.py: expiry passes and _sync_* helpers                 *)
(***************************************************************************)
\* _expire_dissolved_nodes: dissolved_nodes is a dict, kept as a set of
\* <<coordinate, restore_at>> pairs with one pair per coordinate
_expire_dissolved_nodes(st, t, w, h) ==
    LET to_delete == {p \in st.dissolved_nodes : p[2] <= t}
    IN  [st EXCEPT
            !.dissolved_nodes = @ \ to_delete,
            !.active_decisions =
                @ \cup {p[1] : p \in {q \in to_delete : InBounds(w, h, q[1][1], q[1][2])}}]

\* a plausible slip: expired traps are left in the list
ExpireNoTraps(st, t) == st

\* _expire_traps
_expire_traps(st, t) ==
    [st EXCEPT !.traps =
        SelectSeq(@, LAMBDA trap : ~(trap.expires_at # 0 /\ trap.expires_at <= t))]

\* _sync_trap_state: every attribute it defaults exists after GameState.__init__
_sync_trap_state(st) == _grant_shield_bonus_if_needed(st)

\* _sync_jump_charges_with_state
_sync_jump_charges_with_state(st, start_age) ==
    _grant_jump_bonus_if_needed([st EXCEPT !.jump_charges = Max(0, @)], start_age)

\* _sync_ally_state
_sync_ally_state(st, t) == _sync_trap_state(_replenish_ally_jump_charges(st, t))

\* _sync_freeze_state
_sync_freeze_state(st, t) == _replenish_freeze_charges(st, t)

\* _sync_expand_state
_sync_expand_state(st, t) == _replenish_expand_charges(st, t)

\* _sync_dissolve_state
_sync_dissolve_state(st, t, w, h) ==
    LET s1 == [st EXCEPT
                !.ally_dissolve_charges = getattr(@, 1),
                !.ally_dissolve_last_bonus_ts = getattr(@, t),
                !.ally_dissolve_max_charges = getattr(@, DISSOLVE_DEFAULT_CAP)]
    IN  _replenish_dissolve_charges(_expire_dissolved_nodes(s1, t, w, h), t)

\* _sync_blink_state
_sync_blink_state(st, w) ==
    IF st.ally_position = << >>
    THEN [st EXCEPT !.ally_position =
            <<Min(w - 1, st.current_position[1] + 1), st.current_position[2]>>]
    ELSE st

\* _sync_escape_state
_sync_escape_state(st) == _grant_escape_by_age(st)

\* a plausible slip: the "at least one charge" floor is left out
SyncShieldNoFloor(st, t) ==
    _grant_shield_bonus_if_needed(
        [st EXCEPT !.shield_charges = getattr(@, 1),
                   !.shield_last_age = getattr(@, 0),
                   !.shield_active_until = IF @ # None /\ @ <= t THEN None ELSE @])

\* _sync_shield_state
_sync_shield_state(st, t) ==
    _grant_shield_bonus_if_needed(
        [st EXCEPT !.shield_charges = Max(1, getattr(@, 1)),
                   !.shield_last_age = getattr(@, 0),
                   !.shield_active_until = IF @ # None /\ @ <= t THEN None ELSE @])

\* _init_active_decisions: the sets random.shuffle followed by candidates[:count]
\* can produce
_init_active_decisions(st, w, h) ==
    LET candidates == Cells(w, h) \ st.visited_nodes
        count == Min(8, Cardinality(candidates))
    IN  {S \in SUBSET candidates : Cardinality(S) = count}

(***************************************************************************)
(* core/maze.py: generate_maze, one action per iteration of its DFS loop    *)
(***************************************************************************)
\* the threads that call the controller
Threads == 1 .. NThreads

\* lock is held by nobody
NoThread == 0

\* a thread that has not called yet
Idle == [pc |-> "idle", arg |-> << >>, charges |-> 0, ok |-> FALSE, reason |-> ""]

\* no controller call has returned yet
NoResult == [op |-> "none", ok |-> TRUE, reason |-> "", at |-> << >>]

\* generate_maze up to the DFS loop: grid of closed cells, (0,0) visited and
\* pushed, in a process whose Settings hold start_age and save_path
SessionStartAt(w, h, start_age, save_path) ==
    /\ pc = "generate"
    /\ width = w
    /\ height = h
    /\ walls = [c \in Cells(w, h) |-> ClosedCell]
    /\ visited = {<<0, 0>>}
    /\ stack = << <<0, 0>> >>
    /\ decision_nodes = {}
    /\ seed = 0
    /\ rng = 0
    /\ now = 0
    /\ state = GameState(0)
    /\ active_questions = {}
    /\ result = NoResult
    /\ used = {}
    /\ settings = [start_age |-> start_age, maze_width |-> w, maze_height |-> h,
                   save_path |-> save_path]
    /\ threads = [t \in Threads |-> Idle]
    /\ lock = NoThread
    /\ saved = NoFile

\* the session with a save path that cannot be written: every save_now
\* returns False and the handlers go on as they do after a save
SessionStart(w, h, start_age) == SessionStartAt(w, h, start_age, NoSavePath)

\* the same with the Settings defaults
GenStart(w, h) == SessionStart(w, h, DEFAULT_START_AGE)

\* one iteration of the while loop that finds an unvisited neighbour
GenCarve ==
    /\ pc \in {"generate", "restart"}
    /\ stack # << >>
    /\ LET current == stack[Len(stack)] IN
       /\ unvisited_neighbors(width, height, visited, current) # {}
       /\ \E nd \in unvisited_neighbors(width, height, visited, current) :
            /\ walls' = Carve(walls, current, nd[2])
            /\ visited' = visited \cup {nd[1]}
            /\ stack' = Append(stack, nd[1])
    /\ UNCHANGED <<saved, concVars, rng, width, height, decision_nodes, seed, pc, now, state, active_questions, result, settings, used>>

\* one iteration of the while loop that backtracks
GenBacktrack ==
    /\ pc \in {"generate", "restart"}
    /\ stack # << >>
    /\ unvisited_neighbors(width, height, visited, stack[Len(stack)]) = {}
    /\ stack' = SubSeq(stack, 1, Len(stack) - 1)
    /\ decision_nodes' \in IF Len(stack) = 1
                           THEN mark_decision_nodes(width, height, walls)
                           ELSE {decision_nodes}
    /\ UNCHANGED <<saved, concVars, rng, width, height, walls, visited, seed, pc, now, state, active_questions, result, settings, used>>

(***************************************************************************)
(* server/controller.py: construction                                      *)
(***************************************************************************)
Ok(op) == [op |-> op, ok |-> TRUE, reason |-> "", at |-> << >>]

Rejected(op, reason) == [op |-> op, ok |-> FALSE, reason |-> reason, at |-> << >>]

\* the sequence of passes GameController.__init__ runs after
\* _init_active_decisions (controller.py:75-90)
InitPasses(st, t, w, h, start_age) ==
    LET s1 == _sync_jump_charges_with_state(st, start_age)
        s2 == _sync_ally_state(s1, t)
        s3 == _sync_freeze_state(s2, t)
        s4 == _sync_expand_state(s3, t)
        s5 == _replenish_lift_charges(_replenish_lift_charges(s4, t), t)
        s6 == _sync_dissolve_state(s5, t, w, h)
        s7 == _expire_dissolved_nodes(_replenish_dissolve_charges(s6, t), t, w, h)
        s8 == _sync_trap_state(s7)
        s9 == _expire_traps(_replenish_trap_charges(s8, t), t)
        s10 == _replenish_blink_charges(_sync_blink_state(s9, w), t)
    IN  _sync_shield_state(_sync_escape_state(s10), t)

\* run.py main with no save file, then GameController.__init__
Construct ==
    /\ pc = "generate"
    /\ stack = << >>
    /\ LET st0 == [GameState(now) EXCEPT !.age = settings.start_age] IN
       \E active \in _init_active_decisions(st0, width, height) :
        state' = InitPasses([st0 EXCEPT !.active_decisions = active],
                            now, width, height, settings.start_age)
    /\ pc' = "serve"
    /\ active_questions' = {}
    /\ result' = NoResult
    /\ UNCHANGED <<saved, concVars, rng, mazeVars, now, settings, used>>

\* the clock is read at multiples of 15 seconds
TickSteps == {15}

MaxNow == 15 * MaxTicks

\* the client may send a request of this kind
Allowed(kind) == Cardinality(used \cup {kind}) <= MaxKinds

\* time passes between two calls
Tick ==
    /\ pc = "serve"
    /\ \E d \in TickSteps :
        /\ now + d <= MaxNow
        /\ now' = now + d
    /\ UNCHANGED <<saved, concVars, rng, mazeVars, pc, state, active_questions, result, settings, used>>

(***************************************************************************)
(* server/controller.py: entry points, each one call run to completion     *)
(***************************************************************************)
\* the passes at the head of get_state_payload (controller.py:97-105)
StatePasses(st, t, w, h) ==
    LET s1 == _replenish_ally_jump_charges(st, t)
        s2 == _replenish_freeze_charges(s1, t)
        s3 == _replenish_expand_charges(s2, t)
        s4 == _replenish_lift_charges(s3, t)
        s5 == _replenish_dissolve_charges(s4, t)
        s6 == _expire_dissolved_nodes(s5, t, w, h)
        s7 == _replenish_trap_charges(s6, t)
        s8 == _expire_traps(s7, t)
    IN  _sync_shield_state(s8, t)

\* get_state_payload
GetState ==
    /\ pc = "serve"
    /\ state' = StatePasses(state, now, width, height)
    /\ result' = Ok("get_state")
    /\ UNCHANGED <<saved, concVars, rng, mazeVars, pc, now, active_questions, settings, used>>

\* the coordinates requests name: two cells of the maze and one outside it
RequestCoords == {<<0, 0>>, <<1, 0>>, <<maze_width, 0>>}

TrapTypes == {"mine", "medkit", "bomb"}

\* place_trap
PlaceTrap ==
    /\ pc = "serve"
    /\ Allowed("trap")
    /\ used' = used \cup {"trap"}
    /\ \E trap_type \in TrapTypes, c \in RequestCoords :
        LET st1 == _replenish_trap_charges(state, now)
            charges == st1.ally_trap_charges
            kept == SelectSeq(st1.traps, LAMBDA tr : ~(tr.x = c[1] /\ tr.y = c[2]))
            trap == [type |-> trap_type, x |-> c[1], y |-> c[2], placed_at |-> now,
                     reveal_at |-> now + 30, expires_at |-> now + 60]
        IN  IF trap_type \notin {"mine", "medkit"}
            THEN /\ state' = state
                 /\ result' = Rejected("place_trap", "invalid trap type")
                 /\ saved' = saved
            ELSE IF charges <= 0
            THEN /\ state' = st1
                 /\ result' = Rejected("place_trap", "No trap charges left")
                 /\ saved' = saved
            ELSE IF ~InBounds(width, height, c[1], c[2])
            THEN /\ state' = st1
                 /\ result' = Rejected("place_trap", "Out of bounds")
                 /\ saved' = saved
            ELSE /\ state' = [st1 EXCEPT !.traps = Append(kept, trap),
                                         !.ally_trap_charges = charges - 1,
                                         !.ally_trap_last_bonus_ts = now]
                 /\ result' = Ok("place_trap")
                 /\ saved' = save_now(state', saved)
    /\ UNCHANGED <<concVars, rng, mazeVars, pc, now, active_questions, settings>>

\* the candidates of jump_player: the cells 2 or 3 steps away that exist
JumpCandidates(w, h, c, d) ==
    {Shift(c, d, n) : n \in {k \in 2 .. 3 : InBounds(w, h, Shift(c, d, k)[1], Shift(c, d, k)[2])}}

\* a plausible slip: the charge is not taken
JumpConsumeNothing(st) == st

\* the charge jump_player takes (controller.py:411)
JumpConsume(st) == [st EXCEPT !.jump_charges = Max(0, st.jump_charges - 1)]

\* jump_player
JumpPlayer ==
    /\ pc = "serve"
    /\ Allowed("jump")
    /\ used' = used \cup {"jump"}
    /\ \E direction \in Directions \cup {"up"} :
        IF direction \notin Directions
        THEN /\ state' = state
             /\ result' = Rejected("jump", "invalid_direction")
             /\ saved' = saved
        ELSE IF state.jump_charges <= 0
        THEN /\ state' = state
             /\ result' = Rejected("jump", "no_charges")
             /\ saved' = saved
        ELSE IF JumpCandidates(width, height, state.current_position, direction) = {}
        THEN /\ state' = state
             /\ result' = Rejected("jump", "no_destination")
             /\ saved' = saved
        ELSE \E target \in JumpCandidates(width, height, state.current_position, direction) :
             LET s1 == JumpConsume([state EXCEPT !.current_position = target])
                 s2 == IF target \in s1.active_decisions
                       THEN mark_node_visited(s1, target)
                       ELSE s1
             IN  /\ state' = StatePasses(s2, now, width, height)
                 /\ result' = Ok("jump")
                 /\ saved' = save_now(s2, saved)
    /\ UNCHANGED <<concVars, rng, mazeVars, pc, now, active_questions, settings>>

\* the (hero, ally) pairs lift_start is called with: in reach and out of reach
LiftRequests == {<< <<0, 0>>, <<1, 0>> >>, << <<0, 0>>, <<1, 1>> >>}

\* start_lift
StartLift ==
    /\ pc = "serve"
    /\ Allowed("lift")
    /\ used' = used \cup {"lift"}
    /\ \E req \in LiftRequests :
        LET st1 == _replenish_lift_charges(state, now)
            charges == st1.ally_lift_charges
            dx == req[1][1] - req[2][1]
            dy == req[1][2] - req[2][2]
            Abs(v) == IF v < 0 THEN -v ELSE v
        IN  IF charges <= 0
            THEN /\ state' = st1
                 /\ result' = Rejected("lift_start", "No lift charges left")
                 /\ saved' = saved
            ELSE IF ~((dy = 0 /\ Abs(dx) <= 2) \/ (dx = 0 /\ Abs(dy) <= 2))
            THEN /\ state' = st1
                 /\ result' = Rejected("lift_start", "Out of reach")
                 /\ saved' = saved
            ELSE /\ state' = [st1 EXCEPT !.ally_lift_charges = Max(0, charges - 1),
                                         !.ally_lift_last_bonus_ts = now]
                 /\ result' = Ok("lift_start")
                 /\ saved' = save_now(state', saved)
    /\ UNCHANGED <<concVars, rng, mazeVars, pc, now, active_questions, settings>>

\* dissolve_node; GameState has no decision_nodes attribute, so the test of
\* controller.py:560 raises AttributeError for a coordinate that is not active
DissolveNode ==
    /\ pc = "serve"
    /\ Allowed("dissolve")
    /\ used' = used \cup {"dissolve"}
    /\ \E c \in RequestCoords :
        LET st1 == _replenish_dissolve_charges(state, now)
            charges == getattr(st1.ally_dissolve_charges, 0)
            restore_at == now + 15
        IN  IF charges <= 0
            THEN /\ state' = st1
                 /\ result' = Rejected("dissolve", "No dissolve charges left")
                 /\ saved' = saved
            ELSE IF c \notin st1.active_decisions
            THEN /\ state' = st1
                 /\ result' = Rejected("dissolve", "AttributeError")
                 /\ saved' = saved
            ELSE LET s2 == [st1 EXCEPT
                                !.dissolved_nodes = {p \in @ : p[1] # c} \cup {<<c, restore_at>>},
                                !.ally_dissolve_charges = charges - 1,
                                !.ally_dissolve_last_bonus_ts = now,
                                !.active_decisions = @ \ {c}]
                 IN  /\ state' = StatePasses(s2, now, width, height)
                     /\ result' = Ok("dissolve")
                     /\ saved' = save_now(s2, saved)
    /\ UNCHANGED <<concVars, rng, mazeVars, pc, now, active_questions, settings>>

\* escape_hero is called with no coordinates or with a coordinate pair
EscapeRequests == {<< >>} \cup RequestCoords

\* a plausible slip: the rejected call still takes a charge
EscapeRejectTakesCharge(st) == [st EXCEPT !.hero_escape_charges = @ - 1]

\* the state escape_hero leaves when it raises "No escape charges"
EscapeReject(st) == st

\* escape_hero
EscapeHero ==
    /\ pc = "serve"
    /\ Allowed("escape")
    /\ used' = used \cup {"escape"}
    /\ \E req \in EscapeRequests :
        LET st1 == _grant_escape_by_age(state)
            charges == st1.hero_escape_charges
            s2 == [st1 EXCEPT !.hero_escape_charges = charges - 1]
        IN  IF charges <= 0
            THEN /\ state' = EscapeReject(st1)
                 /\ result' = Rejected("escape", "No escape charges")
                 /\ saved' = saved
            ELSE /\ state' = IF req # << >> /\ InBounds(width, height, req[1], req[2])
                             THEN [s2 EXCEPT !.current_position = req]
                             ELSE s2
                 /\ result' = Ok("escape")
                 /\ saved' = save_now(state', saved)
    /\ UNCHANGED <<concVars, rng, mazeVars, pc, now, active_questions, settings>>

\* activate_shield
ActivateShield ==
    /\ pc = "serve"
    /\ Allowed("shield")
    /\ used' = used \cup {"shield"}
    /\ LET st1 == _grant_shield_bonus_if_needed(state)
           charges == getattr(st1.shield_charges, 0)
       IN  IF charges <= 0
           THEN /\ state' = st1
                /\ result' = Rejected("activate_shield", "No shield charges")
                /\ saved' = saved
           ELSE /\ state' = [st1 EXCEPT !.shield_charges = charges - 1,
                                        !.shield_active_until = now + 10]
                /\ result' = Ok("activate_shield")
                /\ saved' = save_now(state', saved)
    /\ UNCHANGED <<concVars, rng, mazeVars, pc, now, active_questions, settings>>

\* the candidates of blink_ally: cells within Manhattan distance 1..3 of the hero
BlinkCandidates(w, h, hero) ==
    {c \in Cells(w, h) :
        LET dx == c[1] - hero[1]
            dy == c[2] - hero[2]
            dist == (IF dx < 0 THEN -dx ELSE dx) + (IF dy < 0 THEN -dy ELSE dy)
        IN  dist # 0 /\ dist <= 3}

\* blink_ally
BlinkAlly ==
    /\ pc = "serve"
    /\ Allowed("blink")
    /\ used' = used \cup {"blink"}
    /\ LET st1 == _replenish_blink_charges(state, now)
           charges == st1.ally_blink_charges
           candidates == BlinkCandidates(width, height, st1.current_position)
       IN  IF charges <= 0
           THEN /\ state' = st1
                /\ result' = Rejected("blink", "No blink charges left")
                /\ saved' = saved
           ELSE IF candidates = {}
           THEN /\ state' = st1
                /\ result' = Rejected("blink", "No valid blink target")
                /\ saved' = saved
           ELSE \E target \in candidates :
                /\ state' = [st1 EXCEPT !.ally_position = target,
                                        !.ally_blink_charges = charges - 1,
                                        !.ally_blink_last_bonus_ts = now]
                /\ result' = Ok("blink")
                /\ saved' = save_now(state', saved)
    /\ UNCHANGED <<concVars, rng, mazeVars, pc, now, active_questions, settings>>

\* the coordinate lists the front end sends to set_active_decisions
ActiveRequests == SUBSET RequestCoords

\* set_active_decisions
SetActiveDecisions ==
    /\ pc = "serve"
    /\ Allowed("decide")
    /\ used' = used \cup {"decide"}
    /\ \E coords \in ActiveRequests :
        state' = [state EXCEPT !.active_decisions =
                    {c \in coords : InBounds(width, height, c[1], c[2])}]
    /\ result' = Ok("set_active_decisions")
    /\ saved' = save_now(state', saved)
    /\ UNCHANGED <<concVars, rng, mazeVars, pc, now, active_questions, settings>>

(***************************************************************************)
(* server/controller.py: the decision flow                                 *)
(***************************************************************************)
\* the ids the content provider or the local scenario pool gives a question,
\* with its tags
QuestionTags == [q1 |-> {"empathy", "courage"}, q2 |-> {}]

QuestionIds == DOMAIN QuestionTags

\* Question.tags of the question stored under an id
TagsOf(qid) == IF qid \in QuestionIds THEN QuestionTags[qid] ELSE {}

\* what the provider answers to review and score_values: a growth_delta
\* (models.py:48 admits 2..10) and either no value scores or a ValueDimensions
ProviderReplies ==
    {[growth_delta |-> 2, values |-> << >>],
     [growth_delta |-> 7, values |-> [ZeroValues EXCEPT !.integrity = 1]]}

\* _build_value_delta
_build_value_delta(tags, growth_delta) ==
    LET base == Max(-2, Min(2, growth_delta))
        bump(flag) == IF base > 0 /\ flag THEN Min(2, base)
                      ELSE IF base < 0 /\ flag THEN Max(-2, base)
                      ELSE 0
        vd == [k \in DOMAIN ZeroValues |-> bump(k \in tags)]
    IN  IF \A k \in DOMAIN vd : vd[k] = 0
        THEN [vd EXCEPT !.responsibility = base]
        ELSE vd

\* a plausible slip: the membership test does not stop the call
StartRejectStillConsumes(st, c) == [st EXCEPT !.active_decisions = @ \cup {c}]

\* the state start_decision leaves when it raises for a coordinate that is not active
StartReject(st, c) == st

\* a plausible slip: the coordinate is tested but not removed
StartConsumeNothing(st, c) == st

\* the first locked section of start_decision on an active coordinate
StartConsume(st, c) == [st EXCEPT !.active_decisions = @ \ {c}]

\* start_decision
StartDecisionWhen(allowed) ==
    /\ pc = "serve"
    /\ allowed
    /\ used' = used \cup {"decide"}
    /\ \E c \in RequestCoords :
        IF c \notin state.active_decisions
        THEN /\ state' = StartReject(state, c)
             /\ active_questions' = active_questions
             /\ result' = [op |-> "start_decision", ok |-> FALSE,
                           reason |-> "not an active decision node", at |-> c]
        ELSE \E qid \in QuestionIds :
             /\ state' = StartConsume(state, c)
             /\ active_questions' = active_questions \cup {qid}
             /\ result' = [op |-> "start_decision", ok |-> TRUE, reason |-> qid, at |-> c]
    /\ UNCHANGED <<saved, concVars, rng, mazeVars, pc, now, settings>>

StartDecision == StartDecisionWhen(Allowed("decide"))

\* a plausible slip: an unknown id is answered as if it were pending
SubmitLookupAny(pending, qid) == TRUE

\* self._active_questions.get(question_id)
SubmitLookup(pending, qid) == qid \in pending

\* the second locked section of submit_decision up to its save_now
\* (controller.py:607-641)
SubmitEffects(st, qid, growth_delta, provider_values, start_age) ==
    LET s1 == [st EXCEPT !.history = Append(@, [question |-> qid, age |-> st.age])]
        s2 == apply_growth(s1, growth_delta)
        value_delta == IF provider_values # << >>
                       THEN provider_values
                       ELSE _build_value_delta(TagsOf(qid), growth_delta)
        s3 == apply_value_delta(s2, value_delta)
        s4 == [s3 EXCEPT !.growth_history =
                Append(@, [question_id |-> qid, age |-> s3.age, value_delta |-> value_delta])]
        s5 == _grant_jump_bonus_if_needed(s4, start_age)
        s6 == _grant_escape_by_age(s5)
    IN  _grant_shield_bonus_if_needed(s6)

\* the second locked section of submit_decision and the get_state_payload of
\* its return value
SubmitApply(st, qid, growth_delta, provider_values, t, w, h, start_age) ==
    StatePasses(SubmitEffects(st, qid, growth_delta, provider_values, start_age), t, w, h)

\* submit_decision: the provider's review either fails (an exception of the
\* provider, or a growth_delta Review rejects) or returns a growth_delta
SubmitDecisionWhen(allowed) ==
    /\ pc = "serve"
    /\ allowed
    /\ used' = used \cup {"decide"}
    /\ \E qid \in QuestionIds \cup {"q0"}, answered \in BOOLEAN :
        IF ~answered
        THEN /\ state' = state
             /\ active_questions' = active_questions
             /\ result' = [Rejected("submit_decision", "Missing decision answer")
                            EXCEPT !.at = <<qid, answered>>]
             /\ saved' = saved
        ELSE IF ~SubmitLookup(active_questions, qid)
        THEN /\ state' = state
             /\ active_questions' = active_questions
             /\ result' = [Rejected("submit_decision", "Question not found")
                            EXCEPT !.at = <<qid, answered>>]
             /\ saved' = saved
        ELSE \/ /\ state' = state
                /\ active_questions' = active_questions
                /\ result' = [Rejected("submit_decision", "provider error")
                               EXCEPT !.at = <<qid, answered>>]
                /\ saved' = saved
             \/ \E reply \in ProviderReplies :
                /\ Len(state.history) < MaxDecisions
                /\ state' = SubmitApply(state, qid, reply.growth_delta, reply.values,
                                        now, width, height, settings.start_age)
                /\ active_questions' = active_questions \ {qid}
                /\ result' = [Ok("submit_decision") EXCEPT !.at = <<qid, answered>>]
                /\ saved' = save_now(SubmitEffects(state, qid, reply.growth_delta,
                                                   reply.values, settings.start_age), saved)
    /\ UNCHANGED <<concVars, rng, mazeVars, pc, now, settings>>

SubmitDecision == SubmitDecisionWhen(Allowed("decide"))

(***************************************************************************)
(* server/controller.py: restart_game.  generate_maze runs inside the call, *)
(* so the controller serves nothing until RestartFinish.                   *)
(***************************************************************************)
\* restart_game up to the DFS loop of generate_maze
RestartBeginWhen(allowed) ==
    /\ pc = "serve"
    /\ allowed
    /\ used' = used \cup {"restart"}
    /\ pc' = "restart"
    /\ width' = settings.maze_width
    /\ height' = settings.maze_height
    /\ walls' = [c \in Cells(settings.maze_width, settings.maze_height) |-> ClosedCell]
    /\ visited' = {<<0, 0>>}
    /\ stack' = << <<0, 0>> >>
    /\ decision_nodes' = {}
    /\ UNCHANGED <<saved, concVars, rng, seed, now, state, active_questions, result, settings>>

RestartBegin == RestartBeginWhen(Allowed("restart"))

\* the passes restart_game runs on the new state (controller.py:249-257),
\* get_state_payload included
RestartPasses(st, t, w, h, start_age) ==
    LET s1 == _sync_jump_charges_with_state(st, start_age)
        s2 == _sync_ally_state(s1, t)
        s3 == _sync_freeze_state(s2, t)
        s4 == _sync_expand_state(s3, t)
        s5 == _replenish_lift_charges(s4, t)
    IN  _sync_escape_state(s5)

\* restart_game once generate_maze has returned
RestartFinish ==
    /\ pc = "restart"
    /\ stack = << >>
    /\ LET st0 == [GameState(now) EXCEPT
                    !.age = settings.start_age,
                    !.ally_position = <<Min(width - 1, 1), 0>>]
           st1 == RestartPasses(st0, now, width, height, settings.start_age)
       IN  \E active \in _init_active_decisions(st1, width, height) :
            /\ state' = StatePasses([st1 EXCEPT !.active_decisions = active],
                                    now, width, height)
            /\ saved' = save_now([st1 EXCEPT !.active_decisions = active], saved)
    /\ pc' = "serve"
    /\ result' = Ok("restart")
    /\ UNCHANGED <<concVars, rng, mazeVars, now, active_questions, settings, used>>

InitMaze ==
    \E w \in 1 .. MaxGenWidth, h \in 1 .. MaxGenHeight : GenStart(w, h)

NextMaze ==
    \/ GenCarve
    \/ GenBacktrack

SpecMaze == InitMaze /\ [][NextMaze]_vars /\ WF_vars(NextMaze)

(***************************************************************************)
(* The session: run.py generates the maze, builds the controller and serves *)
(* the calls one at a time (server/api.py: every route is an async function *)
(* that calls the controller without awaiting).                            *)
(***************************************************************************)
Init == GenStart(maze_width, maze_height)

Next ==
    \/ GenCarve
    \/ GenBacktrack
    \/ Construct
    \/ Tick
    \/ GetState
    \/ PlaceTrap
    \/ JumpPlayer
    \/ StartLift
    \/ DissolveNode
    \/ EscapeHero
    \/ ActivateShield
    \/ BlinkAlly
    \/ SetActiveDecisions
    \/ StartDecision
    \/ SubmitDecision
    \/ RestartBegin
    \/ RestartFinish

Spec == Init /\ [][Next]_vars

(***************************************************************************)
(* The regeneration passes on their own: a pass is applied, at any second  *)
(* of the clock, to a session whose counter is whatever consumption or a   *)
(* loaded save left in it.  pc names the pass under study.                 *)
(***************************************************************************)
\* the clock of SpecRegen runs from 0 to MaxRegenNow seconds
MaxRegenNow == 46

RegenPasses ==
    {"_replenish_ally_jump_charges", "_replenish_freeze_charges",
     "_replenish_expand_charges", "_replenish_lift_charges",
     "_replenish_dissolve_charges", "_replenish_blink_charges",
     "_replenish_trap_charges"}

\* the pass named p, run when time.time() returns t
ApplyPass(p, st, t) ==
    CASE p = "_replenish_ally_jump_charges" -> _replenish_ally_jump_charges(st, t)
      [] p = "_replenish_freeze_charges" -> _replenish_freeze_charges(st, t)
      [] p = "_replenish_expand_charges" -> _replenish_expand_charges(st, t)
      [] p = "_replenish_lift_charges" -> _replenish_lift_charges(st, t)
      [] p = "_replenish_dissolve_charges" -> _replenish_dissolve_charges(st, t)
      [] p = "_replenish_blink_charges" -> _replenish_blink_charges(st, t)
      [] p = "_replenish_trap_charges" -> _replenish_trap_charges(st, t)

\* the counter the pass named p writes
ChargesOf(p, st) ==
    CASE p = "_replenish_ally_jump_charges" -> st.ally_jump_charges
      [] p = "_replenish_freeze_charges" -> st.ally_freeze_charges
      [] p = "_replenish_expand_charges" -> st.ally_expand_charges
      [] p = "_replenish_lift_charges" -> st.ally_lift_charges
      [] p = "_replenish_dissolve_charges" -> st.ally_dissolve_charges
      [] p = "_replenish_blink_charges" -> st.ally_blink_charges
      [] p = "_replenish_trap_charges" -> st.ally_trap_charges

\* the timestamp the pass named p measures the elapsed time from
LastTickOf(p, st) ==
    CASE p = "_replenish_ally_jump_charges" -> st.ally_last_jump_bonus_ts
      [] p = "_replenish_freeze_charges" -> st.ally_freeze_last_bonus_ts
      [] p = "_replenish_expand_charges" -> st.ally_expand_last_bonus_ts
      [] p = "_replenish_lift_charges" -> st.ally_lift_last_bonus_ts
      [] p = "_replenish_dissolve_charges" -> st.ally_dissolve_last_bonus_ts
      [] p = "_replenish_blink_charges" -> st.ally_blink_last_bonus_ts
      [] p = "_replenish_trap_charges" -> st.ally_trap_last_bonus_ts

\* the pass has an initial bonus (freeze, expand, lift) and has not granted it
InitialBonusDue(p, st) ==
    CASE p = "_replenish_freeze_charges" -> ~st.ally_freeze_initial_bonus_awarded
      [] p = "_replenish_expand_charges" -> ~st.ally_expand_initial_bonus_awarded
      [] p = "_replenish_lift_charges" -> ~st.ally_lift_initial_bonus_awarded
      [] OTHER -> FALSE

\* the cap of the counter
RegenCap(p, st) ==
    CASE p = "_replenish_ally_jump_charges" -> 4
      [] p = "_replenish_freeze_charges" -> 3
      [] p = "_replenish_expand_charges" -> 5
      [] p = "_replenish_lift_charges" -> 2
      [] p = "_replenish_dissolve_charges" -> st.ally_dissolve_max_charges
      [] p = "_replenish_blink_charges" -> 2
      [] p = "_replenish_trap_charges" -> 2

\* the session the pass named p is studied on: a constructed session whose
\* counter holds c, as consumption left it, and whose initial-bonus flags are
\* `awarded`
RegenSession(p, c, awarded) ==
    LET st0 == [GameState(0) EXCEPT
                    !.ally_freeze_initial_bonus_awarded = awarded,
                    !.ally_expand_initial_bonus_awarded = awarded,
                    !.ally_lift_initial_bonus_awarded = awarded]
        st1 == InitPasses(st0, 0, maze_width, maze_height, DEFAULT_START_AGE)
    IN  CASE p = "_replenish_ally_jump_charges" -> [st1 EXCEPT !.ally_jump_charges = c]
          [] p = "_replenish_freeze_charges" -> [st1 EXCEPT !.ally_freeze_charges = c]
          [] p = "_replenish_expand_charges" -> [st1 EXCEPT !.ally_expand_charges = c]
          [] p = "_replenish_lift_charges" -> [st1 EXCEPT !.ally_lift_charges = c]
          [] p = "_replenish_dissolve_charges" -> [st1 EXCEPT !.ally_dissolve_charges = c]
          [] p = "_replenish_blink_charges" -> [st1 EXCEPT !.ally_blink_charges = c]
          [] p = "_replenish_trap_charges" -> [st1 EXCEPT !.ally_trap_charges = c]

InitRegen ==
    \E p \in RegenPasses, awarded \in BOOLEAN :
      \E c \in 0 .. RegenCap(p, RegenSession(p, 0, awarded)) :
        /\ pc = p
        /\ state = RegenSession(p, c, awarded)
        /\ now = 0
        /\ width = maze_width
        /\ height = maze_height
        /\ walls = [cell \in Cells(maze_width, maze_height) |-> ClosedCell]
        /\ visited = {<<0, 0>>}
        /\ stack = << >>
        /\ decision_nodes = {}
        /\ seed = 0
        /\ rng = 0
        /\ active_questions = {}
        /\ result = NoResult
        /\ used = {}
        /\ settings = [start_age |-> DEFAULT_START_AGE, save_path |-> NoSavePath,
                       maze_width |-> maze_width, maze_height |-> maze_height]
        /\ threads = [t \in Threads |-> Idle]
        /\ lock = NoThread
        /\ saved = NoFile

\* one second passes
RegenTick ==
    /\ pc \in RegenPasses
    /\ now < MaxRegenNow
    /\ now' = now + 1
    /\ UNCHANGED <<saved, concVars, rng, mazeVars, pc, state, active_questions, result, settings, used>>

\* the pass named p runs now; result keeps the counter and the timestamp it found
RunPass(p) ==
    /\ pc = p
    /\ state' = ApplyPass(p, state, now)
    /\ result' = [op |-> p, ok |-> TRUE, reason |-> "",
                  at |-> <<ChargesOf(p, state), LastTickOf(p, state)>>]
    /\ UNCHANGED <<saved, concVars, rng, mazeVars, pc, now, active_questions, settings, used>>

ReplenishAllyJump == RunPass("_replenish_ally_jump_charges")

ReplenishFreeze == RunPass("_replenish_freeze_charges")

ReplenishExpand == RunPass("_replenish_expand_charges")

ReplenishLift == RunPass("_replenish_lift_charges")

ReplenishDissolve == RunPass("_replenish_dissolve_charges")

ReplenishBlink == RunPass("_replenish_blink_charges")

ReplenishTrap == RunPass("_replenish_trap_charges")

NextRegen ==
    \/ RegenTick
    \/ ReplenishAllyJump
    \/ ReplenishFreeze
    \/ ReplenishExpand
    \/ ReplenishLift
    \/ ReplenishDissolve
    \/ ReplenishBlink
    \/ ReplenishTrap

SpecRegen == InitRegen /\ [][NextRegen]_vars

(***************************************************************************)
(* The age-gated grants: sessions that only take decisions, configured     *)
(* with a start age of 9 or 10, in which each grant pass is also re-run on *)
(* its own, as the controller's _sync_* helpers, escape_hero and           *)
(* activate_shield do.                                                     *)
(***************************************************************************)
\* the values of age.start in the configuration (Settings.load_from_dict)
StartAges == {9, DEFAULT_START_AGE}

InitAge == \E start_age \in StartAges : SessionStart(maze_width, maze_height, start_age)

\* the three grant passes, by name
GrantPasses ==
    {"_grant_jump_bonus_if_needed", "_grant_escape_by_age", "_grant_shield_bonus_if_needed"}

\* the grant pass named p
ApplyGrant(p, st, start_age) ==
    CASE p = "_grant_jump_bonus_if_needed" -> _grant_jump_bonus_if_needed(st, start_age)
      [] p = "_grant_escape_by_age" -> _grant_escape_by_age(st)
      [] p = "_grant_shield_bonus_if_needed" -> _grant_shield_bonus_if_needed(st)

\* the grant pass named p is run again
RunGrant(p) ==
    /\ pc = "serve"
    /\ state' = ApplyGrant(p, state, settings.start_age)
    /\ result' = Ok(p)
    /\ UNCHANGED <<saved, concVars, rng, mazeVars, pc, now, active_questions, settings, used>>

GrantJumpAgain == RunGrant("_grant_jump_bonus_if_needed")

GrantEscapeAgain == RunGrant("_grant_escape_by_age")

GrantShieldAgain == RunGrant("_grant_shield_bonus_if_needed")

NextAge ==
    \/ GenCarve
    \/ GenBacktrack
    \/ Construct
    \/ StartDecision
    \/ SubmitDecision
    \/ GrantJumpAgain
    \/ GrantEscapeAgain
    \/ GrantShieldAgain

SpecAge == InitAge /\ [][NextAge]_vars

(***************************************************************************)
(* core/maze.py: generate_maze as a function of its arguments and of the   *)
(* state of the generator behind the random module, which it draws from in *)
(* program order.  The generator is a small congruential one.              *)
(***************************************************************************)
Seeds == 0 .. MaxSeed

\* the next state of the generator after one draw
NextRand(r) == (5 * r + 3) % RandStates

\* a plausible slip: the generator is left where the earlier draws took it
SeedKeepsState(r, s) == r

\* random.seed(seed): the state depends on the seed alone
random_seed(r, s) == s % RandStates

\* random.random() < 0.3 on a generator in state r
BelowThreeTenths(r) == 10 * r < 3 * RandStates

\* the index random.choice and random.shuffle draw from range(n)
randbelow(r, n) == (r * n) \div RandStates

\* the order Maze.get_neighbors lists the directions in
DirOrder == <<"north", "south", "east", "west">>

\* the cells in the order of the loops `for y ... for x ...`
CellOrder(w, h) == [i \in 1 .. w * h |-> <<(i - 1) % w, (i - 1) \div w>>]

\* the while loop of maze.py:116-139 drawing from the generator
RECURSIVE SeededDfs(_, _, _, _, _, _)
SeededDfs(w, h, wl, vis, stk, r) ==
    IF stk = << >>
    THEN [walls |-> wl, rng |-> r]
    ELSE LET current == stk[Len(stk)]
             unvisited == SelectSeq(DirOrder, LAMBDA d :
                 <<Shift(current, d, 1), d>> \in unvisited_neighbors(w, h, vis, current))
         IN  IF unvisited # << >>
             THEN LET direction == unvisited[randbelow(r, Len(unvisited)) + 1]
                      next_cell == Shift(current, direction, 1)
                  IN  SeededDfs(w, h, Carve(wl, current, direction), vis \cup {next_cell},
                                Append(stk, next_cell), NextRand(r))
             ELSE SeededDfs(w, h, wl, vis, SubSeq(stk, 1, Len(stk) - 1), r)

\* the marking loop of maze.py:142-150: one draw for every cell with 3 or more
\* openings
RECURSIVE SeededMark(_, _, _, _, _)
SeededMark(cells, i, wl, marked, r) ==
    IF i > Len(cells)
    THEN [decision_nodes |-> marked, rng |-> r]
    ELSE IF opening_count(wl, cells[i]) >= 3
    THEN SeededMark(cells, i + 1, wl,
                    IF BelowThreeTenths(r) THEN Append(marked, cells[i]) ELSE marked,
                    NextRand(r))
    ELSE SeededMark(cells, i + 1, wl, marked, r)

\* random.shuffle(x): for i from len(x) - 1 down to 1, swap x[i] with
\* x[randbelow(i + 1)] (positions counted from 0)
RECURSIVE random_shuffle(_, _, _)
random_shuffle(x, i, r) ==
    IF i < 1
    THEN [list |-> x, rng |-> r]
    ELSE LET j == randbelow(r, i + 1)
         IN  random_shuffle([x EXCEPT ![i + 1] = x[j + 1], ![j + 1] = x[i + 1]],
                            i - 1, NextRand(r))

\* generate_maze(width, height, seed) called with the generator in state r:
\* the walls, the decision nodes and the state it leaves the generator in
generate_maze(w, h, s, r) ==
    LET dfs == SeededDfs(w, h, [c \in Cells(w, h) |-> ClosedCell], {<<0, 0>>},
                         << <<0, 0>> >>, random_seed(r, s))
        mark == SeededMark(CellOrder(w, h), 1, dfs.walls, << >>, dfs.rng)
        marked == {mark.decision_nodes[i] : i \in 1 .. Len(mark.decision_nodes)}
        candidates == SelectSeq(CellOrder(w, h), LAMBDA c :
                          opening_count(dfs.walls, c) >= 2 /\ c \notin marked)
        shuffled == random_shuffle(candidates, Len(candidates) - 1, mark.rng)
        take == Min(5 - Cardinality(marked), Len(candidates))
    IN  IF Cardinality(marked) < 5
        THEN [walls |-> dfs.walls,
              decision_nodes |-> marked \cup {shuffled.list[i] : i \in 1 .. take},
              rng |-> shuffled.rng]
        ELSE [walls |-> dfs.walls, decision_nodes |-> marked, rng |-> mark.rng]

\* a process that has drawn from the generator before: no maze yet
InitSeed ==
    /\ pc = "seeded"
    /\ rng \in 0 .. RandStates - 1
    /\ width = 1
    /\ height = 1
    /\ walls = [c \in Cells(1, 1) |-> ClosedCell]
    /\ visited = {}
    /\ stack = << >>
    /\ decision_nodes = {}
    /\ seed = 0
    /\ now = 0
    /\ state = GameState(0)
    /\ active_questions = {}
    /\ result = NoResult
    /\ used = {}
    /\ settings = [start_age |-> DEFAULT_START_AGE, save_path |-> NoSavePath,
                   maze_width |-> maze_width, maze_height |-> maze_height]
    /\ threads = [t \in Threads |-> Idle]
    /\ lock = NoThread
    /\ saved = NoFile

\* one call of generate_maze(w, h, s)
SeededGenerate ==
    /\ pc = "seeded"
    /\ \E w \in 1 .. MaxGenWidth, h \in 1 .. MaxGenHeight, s \in Seeds :
        LET maze == generate_maze(w, h, s, rng)
        IN  /\ width' = w
            /\ height' = h
            /\ seed' = s
            /\ walls' = maze.walls
            /\ decision_nodes' = maze.decision_nodes
            /\ rng' = maze.rng
            /\ visited' = Cells(w, h)
            /\ result' = Ok("generate_maze")
    /\ UNCHANGED <<saved, concVars, stack, pc, now, state, active_questions, settings, used>>

\* any other draw of the process: random.random(), random.choice, ...
OtherDraw ==
    /\ pc = "seeded"
    /\ rng' = NextRand(rng)
    /\ UNCHANGED <<saved, concVars, mazeVars, pc, now, state, active_questions, result, settings, used>>

NextSeed ==
    \/ SeededGenerate
    \/ OtherDraw

SpecSeed == InitSeed /\ [][NextSeed]_vars

(***************************************************************************)
(* The controller called from several threads at once.  pc names the       *)
(* operation every thread calls.  A call is taken apart where another      *)
(* thread can run in between: entering the with self._lock block (for the  *)
(* operations that have one), running the pass and reading the counter or  *)
(* testing the coordinate, and the assignments that follow the test.       *)
(***************************************************************************)
\* the names the consuming operations report under, with the reason each gives
\* when its counter is exhausted
ExhaustedReason ==
    [jump |-> "no_charges",
     lift_start |-> "No lift charges left",
     dissolve |-> "No dissolve charges left",
     place_trap |-> "No trap charges left",
     blink |-> "No blink charges left",
     escape |-> "No escape charges",
     activate_shield |-> "No shield charges"]

ConsumingOps == DOMAIN ExhaustedReason

ConcOps == ConsumingOps \cup {"start_decision"}

\* the operations whose body is a with self._lock block (controller.py:264,
\* 376, 442, 490, 555); escape_hero, activate_shield and blink_ally have none
TakesLock(op) == op \in {"start_decision", "jump", "lift_start", "dissolve", "place_trap"}

\* a plausible slip: the lock excludes nobody
LockAlwaysFree(l) == TRUE

\* threading.Lock: acquire returns once nobody holds the lock
LockFree(l) == l = NoThread

\* a plausible slip: an exit path that leaves the lock held
ReleaseNever(op, l) == l

\* leaving the with block, for the operations that have one
Release(op, l) == IF TakesLock(op) THEN NoThread ELSE l

\* the regeneration or grant pass at the head of a consuming operation
PassOf(op, st, t) ==
    CASE op = "lift_start" -> _replenish_lift_charges(st, t)
      [] op = "dissolve" -> _replenish_dissolve_charges(st, t)
      [] op = "place_trap" -> _replenish_trap_charges(st, t)
      [] op = "blink" -> _replenish_blink_charges(st, t)
      [] op = "escape" -> _grant_escape_by_age(st)
      [] op = "activate_shield" -> _grant_shield_bonus_if_needed(st)
      [] OTHER -> st

\* the counter a consuming operation reads: getattr(self.state, "..._charges", 0)
CounterOf(op, st) ==
    CASE op = "jump" -> st.jump_charges
      [] op = "lift_start" -> st.ally_lift_charges
      [] op = "dissolve" -> getattr(st.ally_dissolve_charges, 0)
      [] op = "place_trap" -> st.ally_trap_charges
      [] op = "blink" -> st.ally_blink_charges
      [] op = "escape" -> st.hero_escape_charges
      [] op = "activate_shield" -> getattr(st.shield_charges, 0)

\* the counter a consuming operation finds once it has run its pass
CounterAfterPass(op, st, t) == CounterOf(op, PassOf(op, st, t))

\* the arguments the threads call the operation with
ArgsOf(op) ==
    CASE op \in {"start_decision", "dissolve", "place_trap"} -> RequestCoords
      [] op = "jump" -> {<<"east">>, <<"west">>}
      [] op = "lift_start" -> LiftRequests
      [] op = "escape" -> {<< >>, <<1, 0>>}
      [] OTHER -> {<< >>}

\* the largest counter value the threads start on: enough for every thread,
\* within the cap of the counter
StartCharges(op) ==
    CASE op = "start_decision" -> 0
      [] op = "activate_shield" -> SHIELD_CAP
      [] op \in {"jump", "escape"} -> NThreads
      [] OTHER -> Min(2, NThreads)

\* the constructed session the threads call: every cell an active decision, the
\* counter of the operation holding k
ConcSession(op, k) ==
    LET st0 == [GameState(0) EXCEPT
                    !.active_decisions = Cells(maze_width, maze_height)]
        st1 == PassOf(op, InitPasses(st0, 0, maze_width, maze_height, DEFAULT_START_AGE), 0)
    IN  CASE op = "jump" -> [st1 EXCEPT !.jump_charges = k]
          [] op = "lift_start" -> [st1 EXCEPT !.ally_lift_charges = k]
          [] op = "dissolve" -> [st1 EXCEPT !.ally_dissolve_charges = k]
          [] op = "place_trap" -> [st1 EXCEPT !.ally_trap_charges = k]
          [] op = "blink" -> [st1 EXCEPT !.ally_blink_charges = k]
          [] op = "escape" -> [st1 EXCEPT !.hero_escape_charges = k]
          [] op = "activate_shield" -> [st1 EXCEPT !.shield_charges = k]
          [] OTHER -> st1

InitConc ==
    \E op \in ConcOps : \E k \in 0 .. StartCharges(op) :
        /\ pc = op
        /\ state = ConcSession(op, k)
        /\ now = 0
        /\ width = maze_width
        /\ height = maze_height
        /\ walls = [cell \in Cells(maze_width, maze_height) |-> ClosedCell]
        /\ visited = {<<0, 0>>}
        /\ stack = << >>
        /\ decision_nodes = {}
        /\ seed = 0
        /\ rng = 0
        /\ active_questions = {}
        /\ result = NoResult
        /\ used = {}
        /\ settings = [start_age |-> DEFAULT_START_AGE, save_path |-> NoSavePath,
                       maze_width |-> maze_width, maze_height |-> maze_height]
        /\ threads = [t \in Threads |-> Idle]
        /\ lock = NoThread
        /\ saved = NoFile

\* the call has returned or raised
Done(th, ok, reason) == [th EXCEPT !.pc = "done", !.ok = ok, !.reason = reason]

\* thread t calls the operation and, if it has a with block, enters it
ThreadCall(t) ==
    /\ pc \in ConcOps
    /\ threads[t].pc = "idle"
    /\ TakesLock(pc) => LockFree(lock)
    /\ lock' = IF TakesLock(pc) THEN t ELSE lock
    /\ \E arg \in ArgsOf(pc) :
        threads' = [threads EXCEPT ![t] = [@ EXCEPT !.pc = "read", !.arg = arg]]
    /\ UNCHANGED <<saved, mazeVars, rng, pc, now, state, active_questions, result, settings, used>>

\* thread t runs the pass and reads the counter into its local `charges`
\* (start_decision: tests the coordinate); it raises if there is nothing to take
ThreadRead(t) ==
    /\ pc \in ConcOps
    /\ threads[t].pc = "read"
    /\ LET st1 == PassOf(pc, state, now)
           charges == IF pc = "start_decision"
                      THEN (IF threads[t].arg \in st1.active_decisions THEN 1 ELSE 0)
                      ELSE CounterOf(pc, st1)
           reason == IF pc = "start_decision" THEN "not an active decision node"
                     ELSE ExhaustedReason[pc]
       IN  /\ state' = st1
           /\ IF charges <= 0
              THEN /\ threads' = [threads EXCEPT ![t] = Done(@, FALSE, reason)]
                   /\ lock' = Release(pc, lock)
              ELSE /\ threads' = [threads EXCEPT ![t] = [@ EXCEPT !.pc = "write",
                                                                 !.charges = charges]]
                   /\ lock' = lock
    /\ UNCHANGED <<saved, mazeVars, rng, pc, now, active_questions, result, settings, used>>

\* what follows the counter test of a consuming operation: the remaining
\* checks, then the assignments, the counter written from the local `charges`
\* (jump_player reads it again, controller.py:411)
ConsumeEffect(op, st, arg, charges, t, w, h) ==
    CASE op = "jump" ->
            LET candidates == JumpCandidates(w, h, st.current_position, arg[1])
            IN  IF candidates = {}
                THEN {[st |-> st, ok |-> FALSE, reason |-> "no_destination", saves |-> << >>]}
                ELSE {LET s1 == JumpConsume([st EXCEPT !.current_position = target])
                          s2 == IF target \in s1.active_decisions
                                THEN mark_node_visited(s1, target)
                                ELSE s1
                      IN  [st |-> StatePasses(s2, t, w, h), ok |-> TRUE, reason |-> "",
                           saves |-> <<s2>>] : target \in candidates}
      [] op = "lift_start" ->
            LET dx == arg[1][1] - arg[2][1]
                dy == arg[1][2] - arg[2][2]
                Abs(v) == IF v < 0 THEN -v ELSE v
            IN  IF ~((dy = 0 /\ Abs(dx) <= 2) \/ (dx = 0 /\ Abs(dy) <= 2))
                THEN {[st |-> st, ok |-> FALSE, reason |-> "Out of reach", saves |-> << >>]}
                ELSE LET s2 == [st EXCEPT !.ally_lift_charges = Max(0, charges - 1),
                                          !.ally_lift_last_bonus_ts = t]
                     IN  {[st |-> s2, ok |-> TRUE, reason |-> "", saves |-> <<s2>>]}
      [] op = "dissolve" ->
            IF arg \notin st.active_decisions
            THEN {[st |-> st, ok |-> FALSE, reason |-> "AttributeError", saves |-> << >>]}
            ELSE LET s2 == [st EXCEPT
                                !.dissolved_nodes = {p \in @ : p[1] # arg} \cup {<<arg, t + 15>>},
                                !.ally_dissolve_charges = charges - 1,
                                !.ally_dissolve_last_bonus_ts = t,
                                !.active_decisions = @ \ {arg}]
                 IN  {[st |-> StatePasses(s2, t, w, h), ok |-> TRUE, reason |-> "",
                       saves |-> <<s2>>]}
      [] op = "place_trap" ->
            IF ~InBounds(w, h, arg[1], arg[2])
            THEN {[st |-> st, ok |-> FALSE, reason |-> "Out of bounds", saves |-> << >>]}
            ELSE LET s2 == [st EXCEPT
                             !.traps = Append(
                                 SelectSeq(@, LAMBDA tr : ~(tr.x = arg[1] /\ tr.y = arg[2])),
                                 [type |-> "mine", x |-> arg[1], y |-> arg[2], placed_at |-> t,
                                  reveal_at |-> t + 30, expires_at |-> t + 60]),
                             !.ally_trap_charges = charges - 1,
                             !.ally_trap_last_bonus_ts = t]
                 IN  {[st |-> s2, ok |-> TRUE, reason |-> "", saves |-> <<s2>>]}
      [] op = "blink" ->
            LET candidates == BlinkCandidates(w, h, st.current_position)
            IN  IF candidates = {}
                THEN {[st |-> st, ok |-> FALSE, reason |-> "No valid blink target", saves |-> << >>]}
                ELSE {LET s2 == [st EXCEPT !.ally_position = target,
                                           !.ally_blink_charges = charges - 1,
                                           !.ally_blink_last_bonus_ts = t]
                      IN  [st |-> s2, ok |-> TRUE, reason |-> "", saves |-> <<s2>>]
                      : target \in candidates}
      [] op = "escape" ->
            LET s2 == [st EXCEPT !.hero_escape_charges = charges - 1]
                s3 == IF arg # << >> /\ InBounds(w, h, arg[1], arg[2])
                      THEN [s2 EXCEPT !.current_position = arg]
                      ELSE s2
            IN  {[st |-> s3, ok |-> TRUE, reason |-> "", saves |-> <<s3>>]}
      [] op = "activate_shield" ->
            LET s2 == [st EXCEPT !.shield_charges = charges - 1,
                                 !.shield_active_until = t + 10]
            IN  {[st |-> s2, ok |-> TRUE, reason |-> "", saves |-> <<s2>>]}

\* thread t goes on from the test: a consuming operation checks the rest and
\* assigns; start_decision discards the coordinate, leaves the with block and
\* calls the provider
ThreadWrite(t) ==
    /\ pc \in ConcOps
    /\ threads[t].pc = "write"
    /\ IF pc = "start_decision"
       THEN /\ state' = StartConsume(state, threads[t].arg)
            /\ threads' = [threads EXCEPT ![t] = [@ EXCEPT !.pc = "provider"]]
            /\ saved' = saved
       ELSE \E e \in ConsumeEffect(pc, state, threads[t].arg, threads[t].charges,
                                   now, width, height) :
            /\ state' = e.st
            /\ threads' = [threads EXCEPT ![t] = Done(@, e.ok, e.reason)]
            /\ saved' = Saved(e.saves, saved)
    /\ lock' = Release(pc, lock)
    /\ UNCHANGED <<mazeVars, rng, pc, now, active_questions, result, settings, used>>

\* thread t has its question and records it in the second with block of
\* start_decision (controller.py:483-484)
ThreadStore(t) ==
    /\ pc = "start_decision"
    /\ threads[t].pc = "provider"
    /\ LockFree(lock)
    /\ \E qid \in QuestionIds :
        /\ active_questions' = active_questions \cup {qid}
        /\ threads' = [threads EXCEPT ![t] = Done(@, TRUE, qid)]
    /\ UNCHANGED <<saved, mazeVars, rng, pc, now, state, result, settings, used, lock>>

NextConc ==
    \E t \in Threads :
        \/ ThreadCall(t)
        \/ ThreadRead(t)
        \/ ThreadWrite(t)
        \/ ThreadStore(t)

SpecConc == InitConc /\ [][NextConc]_vars

(***************************************************************************)
(* server/controller.py: movement, hazards and wall mutations              *)
(***************************************************************************)
\* _apply_trap_trigger returned None
NoEvent ==
    [hit |-> FALSE, type |-> "", effect |-> "", amount |-> 0,
     hero_health |-> 0, shield_active |-> FALSE]

\* a plausible slip: the shield window is not looked at
ShieldNeverActive(st, t) == FALSE

\* the shield test of _apply_trap_trigger (controller.py:723-725)
ShieldActive(st, t) == st.shield_active_until # None /\ st.shield_active_until > t

\* a plausible slip: the health is not clamped
HealthAfterNoClamp(current, effect, amount) ==
    IF effect = "damage" THEN current - amount ELSE current + amount

\* controller.py:728-731
HealthAfter(current, effect, amount) ==
    IF effect = "damage" THEN Max(0, current - amount) ELSE Min(100, current + amount)

\* _apply_trap_trigger at (c[1], c[2]); effect is what the roll decides
_apply_trap_trigger(st, t, c, effect) ==
    LET hits == {i \in 1 .. Len(st.traps) : st.traps[i].x = c[1] /\ st.traps[i].y = c[2]}
    IN  IF hits = {}
        THEN [st |-> st, event |-> NoEvent]
        ELSE LET hit_index == CHOOSE i \in hits : \A j \in hits : i <= j
                 trap == st.traps[hit_index]
                 popped == [st EXCEPT !.traps =
                               SubSeq(@, 1, hit_index - 1) \o SubSeq(@, hit_index + 1, Len(@))]
                 amount == IF effect = "damage" THEN 30 ELSE 20
                 shield_active == ShieldActive(st, t)
                 s2 == IF shield_active
                       THEN popped
                       ELSE [popped EXCEPT !.hero_health = HealthAfter(@, effect, amount)]
             IN  [st |-> s2,
                  event |-> [hit |-> TRUE, type |-> trap.type, effect |-> effect,
                             amount |-> amount, hero_health |-> s2.hero_health,
                             shield_active |-> shield_active]]

\* a plausible slip: the wall of the current cell is not looked at
MoveIgnoresWalls(wl, c, d) == TRUE

\* the wall test of move_player (controller.py:317)
MoveOpen(wl, c, d) == can_move(wl, c, d)

\* _direction_from_delta
_direction_from_delta(dx, dy) ==
    IF dx = 1 THEN "east"
    ELSE IF dx = -1 THEN "west"
    ELSE IF dy = 1 THEN "south"
    ELSE "north"

\* a plausible slip: the position is written before the step is validated
MoveRejectedAfterStep(st, target, reason) ==
    [st |-> [st EXCEPT !.current_position = target], valid |-> FALSE,
     reason |-> reason, event |-> NoEvent]

\* the early returns of move_player (controller.py:302-323)
MoveRejected(st, target, reason) ==
    [st |-> st, valid |-> FALSE, reason |-> reason, event |-> NoEvent]

\* move_player(target): the state it leaves and what it returns
move_player(st, t, w, h, wl, target, effect) ==
    LET s1 == _expire_traps(st, t)
        current == s1.current_position
        dx == target[1] - current[1]
        dy == target[2] - current[2]
        Abs(v) == IF v < 0 THEN -v ELSE v
        refused(reason) == MoveRejected(s1, target, reason)
    IN  IF Abs(dx) + Abs(dy) # 1
        THEN refused("invalid_step")
        ELSE IF ~InBounds(w, h, current[1], current[2]) \/ ~InBounds(w, h, target[1], target[2])
        THEN refused("out_of_bounds")
        ELSE IF ~MoveOpen(wl, current, _direction_from_delta(dx, dy))
        THEN refused("blocked")
        ELSE LET s2 == [s1 EXCEPT !.current_position = target]
                 s3 == IF target \in s2.active_decisions
                       THEN mark_node_visited(s2, target)
                       ELSE s2
                 hit == _apply_trap_trigger(s3, t, target, effect)
             IN  [st |-> hit.st, valid |-> TRUE, reason |-> "", event |-> hit.event]

\* a plausible slip: the hero is put outside the maze and keeps the health
ThrowOutUnharmed(st, target) == [st EXCEPT !.current_position = target]

\* the branch of throw_lift for a target outside the maze (controller.py:534-538)
ThrowFatal(st, target) == [st EXCEPT !.current_position = target, !.hero_health = 0]

\* throw_lift(ally, direction) with the distance random.choice((2, 3)) drew,
\* up to its save_now (controller.py:510-541)
ThrowLanding(st, w, h, ally, direction, dist) ==
    LET target == Shift(ally, direction, dist)
    IN  IF InBounds(w, h, target[1], target[2])
        THEN LET s2 == [st EXCEPT !.current_position = target]
             IN  IF target \in s2.active_decisions
                 THEN [mark_node_visited(s2, target) EXCEPT !.active_decisions = @ \ {target}]
                 ELSE s2
        ELSE ThrowFatal(st, target)

\* throw_lift with the get_state_payload of its return value
throw_lift(st, t, w, h, ally, direction, dist) ==
    StatePasses(ThrowLanding(st, w, h, ally, direction, dist), t, w, h)

\* controller.py:749
FreezeHealth(current, damage) == Max(0, current - damage)

\* round(): to the nearest integer, halves to the even one; the argument is
\* given in tenths
Round(tenths) ==
    LET q == tenths \div 10
        r == tenths % 10
    IN  IF r < 5 THEN q
        ELSE IF r > 5 THEN q + 1
        ELSE IF q % 2 = 0 THEN q ELSE q + 1

\* the damage of apply_freeze_hit: damage_percent is << >> for None, else
\* <<the percentage in tenths>>
freeze_damage(damage_percent) ==
    LET percent == IF damage_percent = << >> THEN 50 ELSE Max(0, damage_percent[1])
    IN  Max(1, Round(percent))

\* apply_freeze_hit
apply_freeze_hit(st, damage_percent) ==
    LET s1 == _sync_trap_state(st)
    IN  [s1 EXCEPT !.hero_health = FreezeHealth(@, freeze_damage(damage_percent))]

\* a plausible slip: only the named cell's side of the wall is set
MutateOneSide(wl, w, h, m) ==
    IF ~InBounds(w, h, m.x, m.y) \/ wl[<<m.x, m.y>>][m.direction] = (m.action = "close")
    THEN wl
    ELSE [wl EXCEPT ![<<m.x, m.y>>][m.direction] = (m.action = "close")]

\* _apply_wall_mutation: the walls after one mutation (the same walls when it
\* returns False)
_apply_wall_mutation(wl, w, h, m) ==
    LET cell == <<m.x, m.y>>
        target_state == m.action = "close"
        neighbor == Shift(cell, m.direction, 1)
    IN  IF ~InBounds(w, h, m.x, m.y) \/ wl[cell][m.direction] = target_state
        THEN wl
        ELSE IF InBounds(w, h, neighbor[1], neighbor[2])
        THEN [wl EXCEPT ![cell][m.direction] = target_state,
                        ![neighbor][OPPOSITE_DIRECTION[m.direction]] = target_state]
        ELSE [wl EXCEPT ![cell][m.direction] = target_state]

\* the loop of apply_wall_mutations
RECURSIVE apply_wall_mutations(_, _, _, _)
apply_wall_mutations(wl, w, h, mutations) ==
    IF mutations = << >>
    THEN wl
    ELSE apply_wall_mutations(_apply_wall_mutation(wl, w, h, mutations[1]), w, h,
                              SubSeq(mutations, 2, Len(mutations)))

\* _visible_traps_payload
_visible_traps_payload(st, t) ==
    LET live == SelectSeq(st.traps,
                          LAMBDA trap : ~(trap.expires_at # 0 /\ trap.expires_at <= t))
    IN  [i \in 1 .. Len(live) |->
            [type |-> live[i].type, x |-> live[i].x, y |-> live[i].y,
             visible |-> t >= live[i].reveal_at,
             reveal_at |-> live[i].reveal_at, expires_at |-> live[i].expires_at]]

(***************************************************************************)
(* get_state_payload polled from several threads at once.  It takes no     *)
(* lock (controller.py:95-105), so a poll can be suspended between the     *)
(* statements of a pass: here after the first one, the read of             *)
(* ally_last_jump_bonus_ts into the local last_ts (controller.py:1125).    *)
(***************************************************************************)
\* the clock values at which the threads poll a session constructed at 0
PollTimes == {14, 15, 31, 45}

\* the constructed session the threads poll, its ally jump counter holding k
PollSession(k) ==
    [InitPasses(GameState(0), 0, maze_width, maze_height, DEFAULT_START_AGE)
        EXCEPT !.ally_jump_charges = k]

InitPoll ==
    \E k \in 0 .. ALLY_JUMP_CAP, t \in PollTimes :
        /\ pc = "get_state"
        /\ state = PollSession(k)
        /\ now = t
        /\ width = maze_width
        /\ height = maze_height
        /\ walls = [cell \in Cells(maze_width, maze_height) |-> ClosedCell]
        /\ visited = {<<0, 0>>}
        /\ stack = << >>
        /\ decision_nodes = {}
        /\ seed = 0
        /\ rng = 0
        /\ active_questions = {}
        /\ result = NoResult
        /\ used = {}
        /\ settings = [start_age |-> DEFAULT_START_AGE, save_path |-> NoSavePath,
                       maze_width |-> maze_width, maze_height |-> maze_height]
        /\ threads = [th \in Threads |-> Idle]
        /\ lock = NoThread
        /\ saved = NoFile

\* thread t calls get_state_payload and reads last_ts in the first pass
PollRead(t) ==
    /\ pc = "get_state"
    /\ threads[t].pc = "idle"
    /\ threads' = [threads EXCEPT ![t] = [@ EXCEPT !.pc = "write",
                                                   !.arg = <<state.ally_last_jump_bonus_ts>>]]
    /\ UNCHANGED <<saved, mazeVars, rng, pc, now, state, active_questions, result, settings,
                   used, lock>>

\* thread t goes on from the read: the rest of the first pass, computed from
\* its local last_ts and the counter as it is now, then the other passes
PollWrite(t) ==
    /\ pc = "get_state"
    /\ threads[t].pc = "write"
    /\ state' = StatePasses([state EXCEPT !.ally_last_jump_bonus_ts = threads[t].arg[1]],
                            now, width, height)
    /\ threads' = [threads EXCEPT ![t] = Done(@, TRUE, "")]
    /\ UNCHANGED <<saved, mazeVars, rng, pc, now, active_questions, result, settings, used, lock>>

NextPoll ==
    \E t \in Threads :
        \/ PollRead(t)
        \/ PollWrite(t)

SpecPoll == InitPoll /\ [][NextPoll]_vars

(***************************************************************************)
(* submit_decision called from several threads at once.  A call is taken   *)
(* apart where it leaves the lock: the first with block (the lookup,       *)
(* controller.py:591-596), the provider calls, then the second with block  *)
(* (607-641) and the return.                                               *)
(***************************************************************************)
InitSubmit ==
    \E pending \in SUBSET QuestionIds :
        /\ pc = "submit_decision"
        /\ state = InitPasses(GameState(0), 0, maze_width, maze_height, DEFAULT_START_AGE)
        /\ active_questions = pending
        /\ now = 0
        /\ width = maze_width
        /\ height = maze_height
        /\ walls = [cell \in Cells(maze_width, maze_height) |-> ClosedCell]
        /\ visited = {<<0, 0>>}
        /\ stack = << >>
        /\ decision_nodes = {}
        /\ seed = 0
        /\ rng = 0
        /\ result = NoResult
        /\ used = {}
        /\ settings = [start_age |-> DEFAULT_START_AGE, save_path |-> NoSavePath,
                       maze_width |-> maze_width, maze_height |-> maze_height]
        /\ threads = [th \in Threads |-> Idle]
        /\ lock = NoThread
        /\ saved = NoFile

\* thread t calls submit_decision with an answer and runs the first with
\* block: it raises for an id that is not pending, else goes on to the provider
SubmitCall(t) ==
    /\ pc = "submit_decision"
    /\ threads[t].pc = "idle"
    /\ LockFree(lock)
    /\ \E qid \in QuestionIds \cup {"q0"} :
        threads' = [threads EXCEPT ![t] =
            IF SubmitLookup(active_questions, qid)
            THEN [@ EXCEPT !.pc = "provider", !.arg = <<qid>>]
            ELSE Done([@ EXCEPT !.arg = <<qid>>], FALSE, "Question not found")]
    /\ UNCHANGED <<saved, mazeVars, rng, pc, now, state, active_questions, result, settings,
                   used, lock>>

\* thread t has the provider's answer (or its exception) and, with an answer,
\* runs the second with block: pop(question_id, None) or question, the effects
SubmitReturn(t) ==
    /\ pc = "submit_decision"
    /\ threads[t].pc = "provider"
    /\ LockFree(lock)
    /\ \/ /\ threads' = [threads EXCEPT ![t] = Done(@, FALSE, "provider error")]
          /\ UNCHANGED <<state, active_questions, saved>>
       \/ \E reply \in ProviderReplies :
          LET qid == threads[t].arg[1] IN
          /\ state' = SubmitApply(state, qid, reply.growth_delta, reply.values,
                                  now, width, height, settings.start_age)
          /\ active_questions' = active_questions \ {qid}
          /\ saved' = save_now(SubmitEffects(state, qid, reply.growth_delta, reply.values,
                                             settings.start_age), saved)
          /\ threads' = [threads EXCEPT ![t] = Done(@, TRUE, "")]
    /\ UNCHANGED <<mazeVars, rng, pc, now, result, settings, used, lock>>

NextSubmit ==
    \E t \in Threads :
        \/ SubmitCall(t)
        \/ SubmitReturn(t)

SpecSubmit == InitSubmit /\ [][NextSubmit]_vars

(***************************************************************************)
(* The session with its movement, hazard and wall requests, the calls      *)
(* served one at a time                                                    *)
(***************************************************************************)
\* the times after the start at which calls arrive: around the reveal and the
\* expiry of a trap placed at the start; at the end of a shield window opened
\* at the start; when a node dissolved at the start is restored
TrapTimes == {10, 30, 31, 60, 61}

HazardTimes == {10}

PlayTimes == {15}

StepTimes == {60}

\* the client may send a request of this kind
PlayAllowed(kind) == Cardinality(used \cup {kind}) <= MaxPlayKinds

\* time passes until the next of the times
TickTo(times) ==
    /\ pc = "serve"
    /\ \E t \in times :
        /\ t > now
        /\ \A u \in times : u > now => t <= u
        /\ now' = t
    /\ UNCHANGED <<saved, concVars, rng, mazeVars, pc, state, active_questions, result, settings, used>>

TrapTick == TickTo(TrapTimes)

HazardTick == TickTo(HazardTimes)

PlayTick == TickTo(PlayTimes)

StepTick == TickTo(StepTimes)

\* the targets move_player is called with: the neighbours of the hero's cell
\* to the east, west and north and the cell two steps east
MoveTargets(c) == {Shift(c, d, 1) : d \in {"east", "west", "north"}} \cup {Shift(c, "east", 2)}

\* move_player
MovePlayer ==
    /\ pc = "serve"
    /\ \E target \in MoveTargets(state.current_position), effect \in {"damage", "heal"} :
        LET r == move_player(state, now, width, height, walls, target, effect)
        IN  /\ state' = r.st
            /\ result' = [op |-> "move", ok |-> r.valid, reason |-> r.reason,
                          at |-> [target |-> target, event |-> r.event]]
    /\ UNCHANGED <<saved, concVars, rng, mazeVars, pc, now, active_questions, settings, used>>

\* sync_position
SyncPosition ==
    /\ pc = "serve"
    /\ PlayAllowed("sync_position")
    /\ used' = used \cup {"sync_position"}
    /\ \E target \in RequestCoords :
        IF ~InBounds(width, height, target[1], target[2])
        THEN /\ state' = state
             /\ result' = Rejected("sync_position", "out_of_bounds")
             /\ saved' = saved
        ELSE /\ state' = StatePasses([state EXCEPT !.current_position = target],
                                     now, width, height)
             /\ result' = Ok("sync_position")
             /\ saved' = save_now([state EXCEPT !.current_position = target], saved)
    /\ UNCHANGED <<concVars, rng, mazeVars, pc, now, active_questions, settings>>

\* the (ally, direction) pairs lift_throw is called with
ThrowRequests == {<<0, 0>>} \X {"east", "north"}

\* throw_lift
ThrowLift ==
    /\ pc = "serve"
    /\ PlayAllowed("lift_throw")
    /\ used' = used \cup {"lift_throw"}
    /\ \E req \in ThrowRequests, dist \in {2, 3} :
        /\ state' = throw_lift(state, now, width, height, req[1], req[2], dist)
        /\ result' = [Ok("lift_throw") EXCEPT
                         !.at = [ally |-> req[1], direction |-> req[2],
                                 hero_dead |-> ~InBounds(width, height,
                                                         Shift(req[1], req[2], dist)[1],
                                                         Shift(req[1], req[2], dist)[2])]]
        /\ saved' = save_now(ThrowLanding(state, width, height, req[1], req[2], dist), saved)
    /\ UNCHANGED <<concVars, rng, mazeVars, pc, now, active_questions, settings>>

\* the damage_percent values freeze_hit is called with: None, -5, 250
FreezePercents == {<< >>, <<-50>>, <<2500>>}

\* apply_freeze_hit
ApplyFreezeHit ==
    /\ pc = "serve"
    /\ PlayAllowed("freeze_hit")
    /\ used' = used \cup {"freeze_hit"}
    /\ \E damage_percent \in FreezePercents :
        /\ state' = apply_freeze_hit(state, damage_percent)
        /\ result' = Ok("freeze_hit")
    /\ saved' = save_now(state', saved)
    /\ UNCHANGED <<concVars, rng, mazeVars, pc, now, active_questions, settings>>

\* the operations a mutation request is made of
WallOps ==
    [x : {0, maze_width}, y : {0}, direction : {"east", "north"},
     action : {"open", "close"}]

\* the lists apply_wall_mutations is called with
MutationRequests ==
    {<< >>} \cup {<<m>> : m \in WallOps}
        \cup {<<m, n>> : m \in {o \in WallOps : o.action = "close"},
                         n \in {o \in WallOps : o.action = "open"}}

\* apply_wall_mutations
ApplyWallMutations ==
    /\ pc = "serve"
    /\ PlayAllowed("mutations")
    /\ used' = used \cup {"mutations"}
    /\ \E mutations \in MutationRequests :
        /\ walls' = apply_wall_mutations(walls, width, height, mutations)
        /\ result' = [op |-> "mutations",
                      ok |-> apply_wall_mutations(walls, width, height, mutations) # walls,
                      reason |-> "", at |-> << >>]
    /\ UNCHANGED <<saved, concVars, rng, width, height, visited, stack, decision_nodes, seed,
                   pc, now, state, active_questions, settings>>

\* a consuming operation served alone: its pass, the counter test, the rest
PlayConsume(op) ==
    /\ pc = "serve"
    /\ PlayAllowed(op)
    /\ used' = used \cup {op}
    /\ \E arg \in ArgsOf(op) :
        LET st1 == PassOf(op, state, now)
            charges == CounterOf(op, st1)
        IN  IF charges <= 0
            THEN /\ state' = st1
                 /\ result' = Rejected(op, ExhaustedReason[op])
                 /\ saved' = saved
            ELSE \E e \in ConsumeEffect(op, st1, arg, charges, now, width, height) :
                 /\ state' = e.st
                 /\ result' = [op |-> op, ok |-> e.ok, reason |-> e.reason, at |-> << >>]
                 /\ saved' = Saved(e.saves, saved)
    /\ UNCHANGED <<concVars, rng, mazeVars, pc, now, active_questions, settings>>

PlayPlaceTrap == PlayConsume("place_trap")

PlayActivateShield == PlayConsume("activate_shield")

\* jump_player(direction): the outcomes [st, ok, reason] it can have
jump_player(st, t, w, h, direction) ==
    IF direction \notin Directions
    THEN {[st |-> st, ok |-> FALSE, reason |-> "invalid_direction", saves |-> << >>]}
    ELSE IF st.jump_charges <= 0
    THEN {[st |-> st, ok |-> FALSE, reason |-> "no_charges", saves |-> << >>]}
    ELSE ConsumeEffect("jump", st, <<direction>>, st.jump_charges, t, w, h)

\* the directions jump_player is called with
JumpRequests == {"east", "west", "up"}

\* jump_player
PlayJump ==
    /\ pc = "serve"
    /\ PlayAllowed("jump")
    /\ used' = used \cup {"jump"}
    /\ \E direction \in JumpRequests :
       \E r \in jump_player(state, now, width, height, direction) :
        /\ state' = r.st
        /\ result' = [op |-> "jump", ok |-> r.ok, reason |-> r.reason, at |-> << >>]
        /\ saved' = Saved(r.saves, saved)
    /\ UNCHANGED <<concVars, rng, mazeVars, pc, now, active_questions, settings>>

PlayEscape == PlayConsume("escape")

PlayBlink == PlayConsume("blink")

PlayDissolve == PlayConsume("dissolve")

\* set_active_decisions
PlaySetActive ==
    /\ pc = "serve"
    /\ PlayAllowed("set_active_decisions")
    /\ used' = used \cup {"set_active_decisions"}
    /\ \E coords \in ActiveRequests :
        state' = [state EXCEPT !.active_decisions =
                    {c \in coords : InBounds(width, height, c[1], c[2])}]
    /\ result' = Ok("set_active_decisions")
    /\ saved' = save_now(state', saved)
    /\ UNCHANGED <<concVars, rng, mazeVars, pc, now, active_questions, settings>>

\* the session with traps placed, polled and stepped on over their lifetime
NextTraps ==
    \/ GenCarve
    \/ GenBacktrack
    \/ Construct
    \/ TrapTick
    \/ GetState
    \/ MovePlayer
    \/ PlayPlaceTrap

SpecTraps == Init /\ [][NextTraps]_vars

\* the session with the hero moving by steps and jumps among traps, some of
\* them past their time
NextSteps ==
    \/ GenCarve
    \/ GenBacktrack
    \/ Construct
    \/ StepTick
    \/ MovePlayer
    \/ PlayJump
    \/ PlayPlaceTrap
    \/ ApplyWallMutations

SpecSteps == Init /\ [][NextSteps]_vars

\* the session whose save path can be written, with handlers that call
\* save_now and handlers that do not
InitSave == SessionStartAt(maze_width, maze_height, DEFAULT_START_AGE, SavePath)

NextSave ==
    \/ GenCarve
    \/ GenBacktrack
    \/ Construct
    \/ MovePlayer
    \/ PlayJump
    \/ PlayPlaceTrap
    \/ PlaySetActive
    \/ StartDecision

SpecSave == InitSave /\ [][NextSave]_vars

\* the session with what changes the hero's health: traps, the shield, freeze
\* hits and throws
NextHazard ==
    \/ GenCarve
    \/ GenBacktrack
    \/ Construct
    \/ HazardTick
    \/ MovePlayer
    \/ ThrowLift
    \/ ApplyFreezeHit
    \/ PlayPlaceTrap
    \/ PlayActivateShield

SpecHazard == Init /\ [][NextHazard]_vars

\* the session with the requests that move the hero and the ally, change the
\* walls and change the decision nodes in play
NextPlay ==
    \/ GenCarve
    \/ GenBacktrack
    \/ Construct
    \/ PlayTick
    \/ GetState
    \/ MovePlayer
    \/ SyncPosition
    \/ ThrowLift
    \/ ApplyWallMutations
    \/ PlayJump
    \/ PlayEscape
    \/ PlayBlink
    \/ PlayDissolve
    \/ PlaySetActive

SpecPlay == Init /\ [][NextPlay]_vars

(***************************************************************************)
(* Properties of generate_maze                                             *)
(***************************************************************************)
\* the cells a walker starting in `seen` can get to through can_move
RECURSIVE ReachableFrom(_, _, _, _)
ReachableFrom(wl, w, h, seen) ==
    LET step == {Shift(c, d, 1) : <<c, d>> \in
                    {cd \in seen \X Directions :
                        /\ can_move(wl, cd[1], cd[2])
                        /\ Shift(cd[1], cd[2], 1) \in Cells(w, h)}}
    IN  IF step \subseteq seen THEN seen
        ELSE ReachableFrom(wl, w, h, seen \cup step)

\* the walls between two cells of the grid that are open from both cells
RemovedWalls(wl, w, h) ==
    {cd \in Cells(w, h) \X {"east", "south"} :
        /\ Shift(cd[1], cd[2], 1) \in Cells(w, h)
        /\ ~wl[cd[1]][cd[2]]
        /\ ~wl[Shift(cd[1], cd[2], 1)][OPPOSITE_DIRECTION[cd[2]]]}

\* no wall of the grid is open on one side only, and no outer wall is open
WallsConsistent(wl, w, h) ==
    \A c \in Cells(w, h), d \in Directions :
        ~wl[c][d] => /\ Shift(c, d, 1) \in Cells(w, h)
                     /\ ~wl[Shift(c, d, 1)][OPPOSITE_DIRECTION[d]]

GenerationDone == stack = << >>

\* C10: generate_maze terminates for every width, height >= 1, and when it
\* does every cell is reachable from (0,0) and exactly width*height - 1 walls
\* have been removed (a spanning tree of the grid)
C10_GenerateMazeSpanningTree ==
    /\ <>GenerationDone
    /\ [](GenerationDone =>
            /\ ReachableFrom(walls, width, height, {<<0, 0>>}) = Cells(width, height)
            /\ WallsConsistent(walls, width, height)
            /\ Cardinality(RemovedWalls(walls, width, height)) = width * height - 1)

\* a finished generation of the largest grid, with a cell of three openings
C10_Witness ==
    /\ GenerationDone
    /\ width = MaxGenWidth
    /\ height = MaxGenHeight
    /\ Cardinality(RemovedWalls(walls, width, height)) = width * height - 1
    /\ \E c \in Cells(width, height) : opening_count(walls, c) >= 3

(***************************************************************************)
(* Properties of the regeneration passes (SpecRegen)                       *)
(***************************************************************************)
\* seconds between two regular grants of the pass named p
RegenInterval(p) ==
    CASE p = "_replenish_ally_jump_charges" -> 15
      [] p = "_replenish_freeze_charges" -> 30
      [] p = "_replenish_expand_charges" -> 20
      [] p = "_replenish_lift_charges" -> 20
      [] p = "_replenish_dissolve_charges" -> 15
      [] p = "_replenish_blink_charges" -> 20
      [] p = "_replenish_trap_charges" -> 20

\* charges one elapsed interval is worth
RegenGain(p) == IF p = "_replenish_expand_charges" THEN 2 ELSE 1

\* C3: for every time-gated ability, a regeneration check never lowers the
\* counter, and once the initial bonus (if the ability has one) is granted, a
\* check now followed by a check at any later time leaves exactly the state a
\* single check at that later time leaves: the counter and the timestamp,
\* which keeps the remainder of the elapsed time
C3_RegenMonotoneAndCheckIndependent ==
    pc \in RegenPasses =>
        LET checked == ApplyPass(pc, state, now) IN
        /\ ChargesOf(pc, checked) >= ChargesOf(pc, state)
        /\ ~InitialBonusDue(pc, state) =>
            \A later \in now .. MaxRegenNow + 1 :
                /\ ApplyPass(pc, checked, later) = ApplyPass(pc, state, later)
                /\ ChargesOf(pc, ApplyPass(pc, state, later)) >= ChargesOf(pc, checked)

\* the ally-jump pass was run a second time inside an interval it had already
\* been run in, after an earlier run in the interval before
C3_Witness ==
    /\ pc = "_replenish_ally_jump_charges"
    /\ result.op = pc
    /\ result.at[2] = 15
    /\ state.ally_last_jump_bonus_ts = 30
    /\ now = 44
    /\ state.ally_jump_charges = 2

\* what C4 states of one pass run now
PassGrantsWholeIntervals(p, st, t) ==
    LET elapsed == t - LastTickOf(p, st)
        intervals == elapsed \div RegenInterval(p)
        post == ApplyPass(p, st, t)
    IN  /\ ChargesOf(p, post) =
            Min(RegenCap(p, st), ChargesOf(p, st) + intervals * RegenGain(p))
        /\ LastTickOf(p, post) = LastTickOf(p, st) + intervals * RegenInterval(p)

\* the example of C4: ally jump at 0 charges, checked after 46 seconds
AllyJumpExample ==
    (/\ pc = "_replenish_ally_jump_charges"
     /\ state.ally_jump_charges = 0
     /\ now - state.ally_last_jump_bonus_ts = 46)
    => LET post == _replenish_ally_jump_charges(state, now) IN
       /\ post.ally_jump_charges = 3
       /\ post.ally_last_jump_bonus_ts = state.ally_last_jump_bonus_ts + 45

\* C4 as stated: every pass run with elapsed >= interval grants
\* min(cap, charges + floor(elapsed/interval) * gain) and advances its
\* timestamp by floor(elapsed/interval) * interval
C4_AsStated ==
    pc \in RegenPasses =>
        /\ now - LastTickOf(pc, state) >= RegenInterval(pc)
            => PassGrantsWholeIntervals(pc, state, now)
        /\ AllyJumpExample

\* C4, amended: a pass run with elapsed >= interval, on an ability that has no
\* initial bonus or has already granted it, grants
\* min(cap, charges + floor(elapsed/interval) * gain) and advances its
\* timestamp by floor(elapsed/interval) * interval; ally jump at 0 charges
\* checked after 46 seconds has 3 charges and a timestamp 45 seconds later
C4_GrantAfterInitialBonus ==
    pc \in RegenPasses =>
        /\ (/\ now - LastTickOf(pc, state) >= RegenInterval(pc)
            /\ ~InitialBonusDue(pc, state))
            => PassGrantsWholeIntervals(pc, state, now)
        /\ AllyJumpExample

\* the ally-jump pass has just run once, 46 seconds after the timestamp, on a
\* counter of 0
C4_Witness ==
    /\ pc = "_replenish_ally_jump_charges"
    /\ result.op = pc
    /\ result.at = <<0, 0>>
    /\ now = 46
    /\ state.ally_jump_charges = 3
    /\ state.ally_last_jump_bonus_ts = 45

(***************************************************************************)
(* Properties of the session (Spec)                                        *)
(***************************************************************************)
\* a counter of the session is within 0 .. cap
Within(charges, cap) == 0 <= charges /\ charges <= cap

\* C2: in every reachable state every ability counter is non-negative, and
\* ally jump <= 4, ally freeze <= 3, ally expand <= 5, ally dissolve <=
\* ally_dissolve_max_charges (2 unless set), ally lift <= 2, ally blink <= 2,
\* ally trap <= 2 and hero shield <= 1; the dissolve and shield counters are
\* judged once the controller has created them
C2_CountersWithinCaps ==
    /\ state.jump_charges >= 0
    /\ state.hero_escape_charges >= 0
    /\ Within(state.ally_jump_charges, 4)
    /\ Within(state.ally_freeze_charges, 3)
    /\ Within(state.ally_expand_charges, 5)
    /\ Within(state.ally_lift_charges, 2)
    /\ Within(state.ally_blink_charges, 2)
    /\ Within(state.ally_trap_charges, 2)
    /\ state.ally_dissolve_charges # Absent =>
        Within(state.ally_dissolve_charges, getattr(state.ally_dissolve_max_charges, 2))
    /\ state.shield_charges # Absent => Within(state.shield_charges, 1)

\* regeneration has filled the ally jump and freeze counters to their caps and
\* a trap has taken the last trap charge
C2_Witness ==
    /\ pc = "serve"
    /\ state.ally_jump_charges = ALLY_JUMP_CAP
    /\ state.ally_freeze_charges = FREEZE_CAP
    /\ state.ally_trap_charges = 0
    /\ Len(state.traps) = 1

\* the counter of a consuming operation and the timer or checkpoint that feeds it
CounterAndTimer(op, st) ==
    CASE op = "jump" -> <<st.jump_charges, st.jump_bonus_awarded>>
      [] op = "lift_start" -> <<st.ally_lift_charges, st.ally_lift_last_bonus_ts,
                                st.ally_lift_initial_bonus_awarded>>
      [] op = "dissolve" -> <<st.ally_dissolve_charges, st.ally_dissolve_last_bonus_ts>>
      [] op = "place_trap" -> <<st.ally_trap_charges, st.ally_trap_last_bonus_ts>>
      [] op = "blink" -> <<st.ally_blink_charges, st.ally_blink_last_bonus_ts>>
      [] op = "escape" -> <<st.hero_escape_charges, st.hero_escape_last_age>>
      [] op = "activate_shield" -> <<st.shield_charges, st.shield_last_age,
                                     st.shield_active_until>>

\* the positions, the trap list and the decision sets
PositionsTrapsDecisions(st) ==
    <<st.current_position, st.ally_position, st.traps,
      st.active_decisions, st.dissolved_nodes, st.visited_nodes>>

\* the step is a call of the controller operation op
CallOf(op) == pc = "serve" /\ pc' = "serve" /\ now' = now /\ result'.op = op

\* C6: a consuming operation (jump, lift_start, dissolve, place_trap, blink,
\* escape, activate_shield) called when its counter is <= 0 after its
\* regeneration pass is rejected, and a call rejected for an exhausted counter
\* leaves the counter, its timer, the hero and ally positions, the trap list,
\* the decision sets and the pending questions as they were
C6_ExhaustedRejectedWithoutEffect ==
    [][\A op \in ConsumingOps :
        CallOf(op) =>
            /\ CounterAfterPass(op, state, now) <= 0 => ~result'.ok
            /\ (~result'.ok /\ result'.reason = ExhaustedReason[op]) =>
                /\ CounterAfterPass(op, state, now) <= 0
                /\ CounterAndTimer(op, state') = CounterAndTimer(op, state)
                /\ PositionsTrapsDecisions(state') = PositionsTrapsDecisions(state)
                /\ active_questions' = active_questions]_vars

\* blink has been refused for want of a charge, after a blink that took the
\* only one
C6_Witness ==
    /\ result = Rejected("blink", ExhaustedReason["blink"])
    /\ state.ally_blink_charges = 0
    /\ state.ally_position # <<Min(maze_width - 1, 1), 0>>

\* what a submit_decision call leaves alone when it changes nothing
SessionUnchanged == state' = state /\ active_questions' = active_questions

\* C9 as stated: submit_decision with an id that is not pending always fails
\* with "Question not found" and changes nothing
C9_AsStated ==
    [][(CallOf("submit_decision") /\ result'.at[1] \notin active_questions) =>
            /\ ~result'.ok
            /\ result'.reason = "Question not found"
            /\ SessionUnchanged]_vars

\* C9, amended: submit_decision with an id that is not pending always fails and
\* leaves the session state and the pending questions unchanged; it fails with
\* "Question not found" when the answer is not empty, and with "Missing
\* decision answer", raised before the lookup, when the answer is empty
C9_UnknownIdRejectedWithoutEffect ==
    [][(CallOf("submit_decision") /\ result'.at[1] \notin active_questions) =>
            /\ ~result'.ok
            /\ result'.reason = IF result'.at[2] THEN "Question not found"
                                ELSE "Missing decision answer"
            /\ SessionUnchanged]_vars

\* an answer was sent for an id that is not pending while another question is,
\* after a decision has been applied
C9_Witness ==
    /\ result.op = "submit_decision"
    /\ result.reason = "Question not found"
    /\ result.at[1] \notin active_questions
    /\ active_questions # {}
    /\ Len(state.history) = 1

\* the coordinates whose dissolve ends when a pass runs at time t
Restorable(st, t) == {p[1] : p \in {q \in st.dissolved_nodes : q[2] <= t}}

\* the last call was a successful start_decision at c
JustStarted(c) == result.op = "start_decision" /\ result.ok /\ result.at = c

\* C8 as stated: once start_decision(c) has succeeded, c is not active, and
\* nothing but the expiry of a dissolve of c puts it back
C8_AsStated ==
    [][\A c \in Cells(width, height) :
        /\ (CallOf("start_decision") /\ result'.ok /\ result'.at = c)
            => c \notin state'.active_decisions
        /\ (JustStarted(c) /\ c \in state'.active_decisions)
            => c \in Restorable(state, now)]_vars

\* C8, amended: a successful start_decision(c) removes c from
\* active_decisions, so later starts at c fail, until c is put back; c is put
\* back only by set_active_decisions, by the sampling of the constructor and of
\* restart_game, or by the expiry of a dissolve of c, never by submit_decision
\* or any other call
C8_ConsumedUntilPutBack ==
    [][\A c \in Cells(width, height) :
        /\ (CallOf("start_decision") /\ result'.ok /\ result'.at = c)
            => c \notin state'.active_decisions
        /\ (CallOf("start_decision") /\ c \notin state.active_decisions /\ result'.at = c)
            => ~result'.ok
        /\ (c \notin state.active_decisions /\ c \in state'.active_decisions)
            => \/ pc = "generate"
               \/ result'.op \in {"set_active_decisions", "restart"}
               \/ c \in Restorable(state, now)]_vars

\* a second start at a consumed coordinate has failed while its question is
\* pending
C8_Witness ==
    /\ result.op = "start_decision"
    /\ ~result.ok
    /\ result.at = <<1, 0>>
    /\ state.active_decisions = Cells(width, height) \ {<<1, 0>>}
    /\ active_questions # {}

(***************************************************************************)
(* Properties of the age-gated grants (SpecAge)                            *)
(***************************************************************************)
\* the checkpoints of the three grants
Checkpoints(st) ==
    <<st.jump_bonus_awarded, st.hero_escape_last_age, getattr(st.shield_last_age, 0)>>

\* the counters of the three grants
GrantedCounters(st) ==
    <<st.jump_charges, st.hero_escape_charges, getattr(st.shield_charges, 0)>>

\* C5: over any sequence of decisions and grant passes no checkpoint
\* (jump_bonus_awarded, hero_escape_last_age, shield_last_age) decreases; a
\* grant pass re-run on a session that has already been through it grants
\* nothing; the hero-jump counter of a session that never jumps is its initial
\* 2 plus one per 5 years of age above the start age, the escape counter one
\* per 10 years of age; and a decision moving age 9 to 11 grants 0 hero-jump
\* charges, one moving age 9 to 16 exactly 1
C5_AgeGrantsRatchet ==
    /\ [][/\ \A i \in 1 .. 3 : Checkpoints(state')[i] >= Checkpoints(state)[i]
          /\ (state.age = 9 /\ state'.age = 11)
                => state'.jump_charges = state.jump_charges
          /\ (state.age = 9 /\ state'.age = 16)
                => state'.jump_charges = state.jump_charges + 1]_vars
    /\ [](pc = "serve" =>
            /\ \A p \in GrantPasses :
                ApplyGrant(p, state, settings.start_age) = state
            /\ state.jump_bonus_awarded = Max(0, (state.age - settings.start_age) \div 5)
            /\ state.jump_charges = 2 + state.jump_bonus_awarded
            /\ state.hero_escape_last_age = 10 * (state.age \div 10)
            /\ state.hero_escape_charges = state.age \div 10
            /\ state.shield_last_age = 20 * (state.age \div 20)
            /\ state.shield_charges = 1)

\* the session that started at age 9 has taken a decision worth 7 years, got
\* its one hero-jump charge for it, and the jump grant has been re-run since
C5_Witness ==
    /\ settings.start_age = 9
    /\ state.age = 16
    /\ Len(state.history) = 1
    /\ state.jump_bonus_awarded = 1
    /\ state.jump_charges = 3
    /\ result = Ok("_grant_jump_bonus_if_needed")

(***************************************************************************)
(* Properties of the controller under concurrent callers                   *)
(***************************************************************************)
\* the calls that got past the test of start_decision at coordinate c
StartedAt(c) ==
    {t \in Threads : /\ threads[t].arg = c
                     /\ \/ threads[t].pc = "provider"
                        \/ threads[t].pc = "done" /\ threads[t].ok}

\* the calls start_decision turned away at coordinate c
TurnedAwayAt(c) ==
    {t \in Threads : /\ threads[t].arg = c
                     /\ threads[t].pc = "done"
                     /\ ~threads[t].ok
                     /\ threads[t].reason = "not an active decision node"}

\* C1: of the start_decision calls that run concurrently on a coordinate that
\* is active, with nothing putting the coordinate back, exactly one gets its
\* question and every other is turned away with "not an active decision node";
\* the test and the removal are one step: a call between the two still finds
\* its coordinate active, and no other call is inside the test at that time
C1_ConcurrentStartExactlyOnce ==
    pc = "start_decision" =>
        /\ \A c \in Cells(width, height) :
            /\ Cardinality(StartedAt(c)) <= 1
            /\ (\A t \in Threads : threads[t].pc = "done" /\ threads[t].arg = c) =>
                   /\ Cardinality(StartedAt(c)) = 1
                   /\ Cardinality(TurnedAwayAt(c)) = NThreads - 1
        /\ \A t \in Threads :
            threads[t].pc = "write" =>
                /\ threads[t].arg \in state.active_decisions
                /\ \A u \in Threads \ {t} : threads[u].pc \notin {"read", "write"}

C1_Witness ==
    /\ pc = "start_decision"
    /\ \A t \in Threads : threads[t].pc = "done" /\ threads[t].arg = <<1, 0>>
    /\ \E t \in Threads : threads[t].ok
    /\ \E t \in Threads : t \in TurnedAwayAt(<<1, 0>>)

\* the consuming calls that have succeeded
Successes == Cardinality({t \in Threads : threads[t].pc = "done" /\ threads[t].ok})

\* C7 as stated: for every consuming operation, with no regeneration due, the
\* counter never goes negative and every step keeps counter + successes, so
\* the counter ends at k minus the number of successes
C7_AsStated ==
    /\ [](pc \in ConsumingOps => CounterOf(pc, state) >= 0)
    /\ [][(pc \in ConsumingOps) =>
            CounterOf(pc, state') + Successes' = CounterOf(pc, state) + Successes]_vars

\* two calls of an operation without the with block both took the last charge
C7_Witness ==
    /\ pc \in ConsumingOps
    /\ ~TakesLock(pc)
    /\ CounterOf(pc, state) = 0
    /\ \A t \in Threads :
        threads[t].pc = "done" /\ threads[t].ok /\ threads[t].charges = 1

\* the operations that have the with block keep the count
C7_LockedOperationsKeepCount ==
    [][(pc \in ConsumingOps /\ TakesLock(pc)) =>
        CounterOf(pc, state') + Successes' = CounterOf(pc, state) + Successes]_vars

(***************************************************************************)
(* Properties of the decision nodes generate_maze marks                    *)
(***************************************************************************)
\* the cells the deficit can be filled from
TwoOrMoreOpenings(wl, w, h) == {c \in Cells(w, h) : opening_count(wl, c) >= 2}

\* C12 as stated: whatever the size and the draws, the generated maze has at
\* least 5 cells flagged as decision nodes
C12_AsStated ==
    GenerationDone => Cardinality(decision_nodes) >= 5

\* a generated maze of 6 cells that has fewer than 5 decision nodes
C12_Witness ==
    /\ GenerationDone
    /\ width = 3
    /\ height = 2
    /\ Cardinality(decision_nodes) < 5

\* what the marking pass does reach: 5 decision nodes, or every cell with two
\* or more openings when there are fewer than 5 of them
C12_FiveOrAllCandidates ==
    GenerationDone =>
        /\ decision_nodes \subseteq TwoOrMoreOpenings(walls, width, height)
        /\ Cardinality(decision_nodes) >=
               Min(5, Cardinality(TwoOrMoreOpenings(walls, width, height)))

\* a maze generate_maze has returned is in place
Generated == result.op = "generate_maze"

\* C11: a run of generate_maze with the width, height and seed of the maze in
\* place produces the walls and the decision nodes of that maze again, whatever
\* was drawn from the generator since
C11_SameSeedSameMaze ==
    [][(Generated /\ Generated' /\ width' = width /\ height' = height /\ seed' = seed)
        => (walls' = walls /\ decision_nodes' = decision_nodes)]_vars

\* a second run with the same arguments, started on a generator that other
\* draws have moved, on a maze where the draws matter
C11_Witness ==
    /\ Generated
    /\ width = 3
    /\ height = 3
    /\ rng # generate_maze(width, height, seed, rng).rng
    /\ generate_maze(width, height, seed, rng).walls = walls
    /\ \E s \in Seeds : generate_maze(width, height, s, rng).walls # walls

(***************************************************************************)
(* Properties of the hero's health                                         *)
(***************************************************************************)
\* C13: after trap triggers, freeze hits with any damage_percent and lift
\* throws, the hero's health is an integer from 0 to 100
C13_HealthInRange ==
    (pc = "serve") => state.hero_health \in 0 .. 100

\* a trap has healed a hero whose health was full, with no shield up
C13_Witness ==
    /\ result.op = "move"
    /\ result.at.event.hit
    /\ result.at.event.effect = "heal"
    /\ ~result.at.event.shield_active
    /\ state.hero_health = 100

\* the step is a call of move_player that triggered a trap
TrapTriggered ==
    /\ result'.op = "move"
    /\ result'.at.event.hit
    /\ state' # state

\* C14: when a trap is triggered while the shield window is open, the health
\* stays as it was, the trap is removed all the same, and the event reports
\* the rolled effect with its amount and shield_active = true
C14_ShieldAbsorbsTrap ==
    [][(TrapTriggered /\ state.shield_active_until > now) =>
          /\ state'.hero_health = state.hero_health
          /\ Len(state'.traps) = Len(_expire_traps(state, now).traps) - 1
          /\ result'.at.event.effect \in {"damage", "heal"}
          /\ result'.at.event.amount =
                 (IF result'.at.event.effect = "damage" THEN 30 ELSE 20)
          /\ result'.at.event.hero_health = state.hero_health
          /\ result'.at.event.shield_active]_vars

\* a damaging trap went off under the shield
C14_Witness ==
    /\ result.op = "move"
    /\ result.at.event.hit
    /\ result.at.event.effect = "damage"
    /\ result.at.event.shield_active
    /\ state.shield_active_until > now

(***************************************************************************)
(* Properties of the traps                                                 *)
(***************************************************************************)
\* the entries of the traps payload for the tile of `trap`
ShownAt(st, t, trap) ==
    LET payload == _visible_traps_payload(st, t)
    IN  {payload[j] : j \in {k \in 1 .. Len(payload) :
                                payload[k].x = trap.x /\ payload[k].y = trap.y}}

IsCell(c) == Len(c) = 2 /\ InBounds(width, height, c[1], c[2])

\* C16 as stated: whatever moves, jumps, sync_position calls, throws, escapes
\* and blinks were served, the hero and the ally stand on cells of the maze
C16_AsStated ==
    (pc = "serve") => (IsCell(state.current_position) /\ IsCell(state.ally_position))

\* a throw has put the hero on a position that is not a cell of the maze
C16_Witness ==
    /\ pc = "serve"
    /\ result.op = "lift_throw"
    /\ ~IsCell(state.current_position)
    /\ state.hero_health = 0

\* what the code keeps: the ally stands on a cell, and so does the hero
\* unless its health is 0
C16_InBoundsUnlessDead ==
    (pc = "serve") =>
        /\ IsCell(state.ally_position)
        /\ IsCell(state.current_position) \/ state.hero_health = 0

\* the coordinates in dissolved_nodes
Dissolved(st) == {p[1] : p \in st.dissolved_nodes}

\* C17 as stated: every coordinate in active_decisions is a cell the maze
\* flags as decision node and is not in visited_nodes, from the start of the
\* session on
C17_AsStated ==
    (pc = "serve") =>
        state.active_decisions \subseteq (decision_nodes \ state.visited_nodes)

\* the session has just started and a cell that is no decision node is active
C17_Witness ==
    /\ pc = "serve"
    /\ result = NoResult
    /\ state.visited_nodes = {}
    /\ state.active_decisions \ decision_nodes # {}

\* C18 as stated: no coordinate is in active_decisions and in dissolved_nodes
\* at once
C18_AsStated ==
    (pc = "serve") => state.active_decisions \cap Dissolved(state) = {}

\* set_active_decisions has made a dissolved node active before its
\* restore time
C18_Witness ==
    /\ pc = "serve"
    /\ result.op = "set_active_decisions"
    /\ \E p \in state.dissolved_nodes : p[1] \in state.active_decisions /\ p[2] > now

(***************************************************************************)
(* Properties of the walls and of move_player                              *)
(***************************************************************************)
\* C19: after generation and after any wall mutations, two adjacent cells
\* hold the same flag for the wall between them
C19_FacingWallsAgree ==
    \A c \in Cells(width, height), d \in Directions :
        Shift(c, d, 1) \in Cells(width, height) =>
            walls[c][d] = walls[Shift(c, d, 1)][OPPOSITE_DIRECTION[d]]

\* a mutation has closed the wall between (0,0) and (1,0), which every
\* generated maze of one row has open
C19_Witness ==
    /\ pc = "serve"
    /\ height = 1
    /\ result.op = "mutations"
    /\ result.ok
    /\ walls[<<0, 0>>]["east"]
    /\ walls[<<1, 0>>]["west"]

\* the step is a call of move_player
MoveServed ==
    /\ result'.op = "move"
    /\ result' # result \/ state' # state

\* C20: move(x, y) is accepted exactly when (x, y) is at Manhattan distance 1
\* of the hero, the hero's cell and (x, y) are cells of the maze and the wall
\* of the hero's cell on that side is open; then the hero stands on (x, y);
\* otherwise the hero stays and the reason is invalid_step, out_of_bounds or
\* blocked, in this order
C20_MoveAcceptedIff ==
    [][MoveServed =>
        LET current == state.current_position
            target == result'.at.target
            Dist(v) == IF v < 0 THEN -v ELSE v
            adjacent == Dist(target[1] - current[1]) + Dist(target[2] - current[2]) = 1
            cells == IsCell(current) /\ IsCell(target)
            open == \E d \in Directions : Shift(current, d, 1) = target /\ ~walls[current][d]
        IN  /\ result'.ok <=> (adjacent /\ cells /\ open)
            /\ result'.ok => state'.current_position = target
            /\ ~result'.ok =>
                /\ state'.current_position = current
                /\ result'.reason = IF ~adjacent THEN "invalid_step"
                                    ELSE IF ~cells THEN "out_of_bounds"
                                    ELSE "blocked"]_vars

\* a move towards an adjacent cell was turned away by a wall that a mutation
\* had closed
C20_Witness ==
    /\ result.op = "move"
    /\ ~result.ok
    /\ result.reason = "blocked"
    /\ IsCell(result.at.target)

(***************************************************************************)
(* Properties of rejected moves and jumps                                  *)
(***************************************************************************)
\* the reasons of a rejection for validation
ValidationReasons ==
    {"invalid_step", "out_of_bounds", "blocked", "invalid_direction", "no_destination"}

\* the step is a call of move_player or jump_player rejected for validation
RejectedStep ==
    /\ result'.op \in {"move", "jump"}
    /\ ~result'.ok
    /\ result'.reason \in ValidationReasons
    /\ result' # result \/ state' # state

\* what a rejection must leave alone, the trap list apart
Kept(st) ==
    <<st.current_position, st.jump_charges, st.hero_health, st.visited_nodes,
      st.active_decisions>>

\* the traps of the list whose 60 seconds are not over
Unexpired(st, t) == SelectSeq(st.traps, LAMBDA trap : t < trap.placed_at + 60)

\* C21 as stated: a move or jump rejected for validation leaves the position,
\* the jump charges, the health, visited_nodes, active_decisions and the trap
\* list exactly as they were
C21_AsStated ==
    [][RejectedStep => (Kept(state') = Kept(state) /\ state'.traps = state.traps)]_vars

\* C21 amended: a move or jump rejected for validation leaves the position,
\* the jump charges, the health, visited_nodes and active_decisions as they
\* were, and of the trap list it leaves every trap whose time is not over; the
\* expired ones a rejected move drops
C21_RejectedKeepsLiveTraps ==
    [][RejectedStep =>
          /\ Kept(state') = Kept(state)
          /\ Unexpired(state', now) = Unexpired(state, now)
          /\ state'.traps \in {state.traps, Unexpired(state, now)}]_vars

\* a move was rejected at time 60, after the last trap charge had been spent,
\* and the list still holds a trap
C21_Witness ==
    /\ result.op = "move"
    /\ ~result.ok
    /\ result.reason \in ValidationReasons
    /\ now = 60
    /\ state.traps # << >>
    /\ state.ally_trap_charges = 0

(***************************************************************************)
(* Properties of the calls to the content provider                         *)
(***************************************************************************)
\* C22 as stated: no call of start_decision or submit_decision ends with the
\* failure of a content-provider call; the operation completes all the same
C22_AsStated ==
    (result.op \in {"start_decision", "submit_decision"}) => result.reason # "provider error"

\* submit_decision for a pending question has ended with the provider's
\* failure: nothing was applied and the question is still pending
C22_Witness ==
    /\ result.op = "submit_decision"
    /\ ~result.ok
    /\ result.reason = "provider error"
    /\ result.at[1] \in active_questions
    /\ state.history = << >>

\* what the code does keep: a question stays pending until a submit_decision
\* for it succeeds, so none is consumed without an answer
C22_FailedSubmitKeepsQuestion ==
    [][(result'.op = "submit_decision" /\ ~result'.ok) =>
          (active_questions' = active_questions /\ state' = state)]_vars

(***************************************************************************)
(* C23: persistence after a mutating call                                  *)
(***************************************************************************)
\* the state-mutating entry points, as the model names them
MutatingOps ==
    {"move", "jump", "sync_position", "mutations", "set_active_decisions", "lift_start",
     "lift_throw", "dissolve", "place_trap", "freeze_hit", "blink", "escape",
     "activate_shield", "start_decision", "submit_decision", "restart"}

\* C23: once a state-mutating entry point has returned, the save file holds the
\* snapshot projection of the state in memory (the save path being writable)
C23_AsStated ==
    (pc = "serve" /\ result.op \in MutatingOps) => saved = to_save_data(state)

\* a move onto a trap has returned: the trap is gone from memory and the hero is
\* hurt, while the file written by place_trap still lists the trap
C23_Witness ==
    /\ result.op = "move" /\ result.ok
    /\ saved # NoFile
    /\ saved.traps # << >>
    /\ state.traps = << >>
    /\ saved.hero_health # state.hero_health

\* the handlers that end with save_now do leave the file equal to the snapshot
C23_SaversAgree ==
    (result.ok /\ result.op \in {"place_trap", "set_active_decisions"})
        => saved = to_save_data(state)

(***************************************************************************)
(* C24: writes under the controller lock                                   *)
(***************************************************************************)
\* the step of thread t writes the session state or the pending questions
WritesBy(t) ==
    /\ threads'[t] # threads[t]
    /\ state' # state \/ active_questions' # active_questions

\* thread t is inside a with self._lock block during the step: it holds the
\* lock before it, or the step is the whole second block of start_decision,
\* entered with the lock free
InsideLock(t) ==
    \/ lock = t
    \/ threads[t].pc = "provider" /\ LockFree(lock)

\* C24: every write to the session state or the pending questions is made by a
\* thread that holds the controller lock
C24_AsStated == [][\A t \in Threads : WritesBy(t) => InsideLock(t)]_vars

\* two calls of escape_hero, activate_shield or blink_ally are both past the
\* counter test and about to write, and nobody holds the lock
C24_Witness ==
    /\ pc \in {"escape", "activate_shield", "blink"}
    /\ \A t \in Threads : threads[t].pc = "write"
    /\ lock = NoThread

\* the operations whose body is a with block do write under the lock
C24_LockedOpsHold ==
    [][\A t \in Threads : (WritesBy(t) /\ TakesLock(pc)) => InsideLock(t)]_vars

(***************************************************************************)
(* C25: regeneration passes under repetition and interleaving              *)
(***************************************************************************)
\* the passes of get_state_payload, run again at the same clock, change nothing
C25_PassesIdempotent ==
    LET once == StatePasses(state, now, width, height)
    IN  StatePasses(once, now, width, height) = once

\* C25: polls of get_state_payload that overlap leave the state a serial order
\* of them leaves: the passes being idempotent at one clock, a poll that
\* finishes after another poll has finished changes nothing
C25_AsStated ==
    [][(pc = "get_state" /\ \E t \in Threads : threads[t].pc = "done") => state' = state]_vars

\* both polls read last_ts = 0 and have returned, one interval after the
\* start: each granted the charge of that interval
C25_Witness ==
    /\ pc = "get_state"
    /\ now = 15
    /\ \A t \in Threads : threads[t].pc = "done" /\ threads[t].arg = <<0>>
    /\ state.ally_jump_charges = 2
    /\ state.ally_last_jump_bonus_ts = 15

(***************************************************************************)
(* C26: one answer per pending question                                    *)
(***************************************************************************)
\* the decision records of the history made for the question qid
AnswersTo(qid) == {i \in 1 .. Len(state.history) : state.history[i].question = qid}

\* C26: the effects of an answer are applied at most once for each pending
\* question id, and of two concurrent calls for one id at most one succeeds
C26_AsStated ==
    pc = "submit_decision" =>
        \A qid \in QuestionIds :
            /\ Cardinality(AnswersTo(qid)) <= 1
            /\ Cardinality({t \in Threads : threads[t].pc = "done" /\ threads[t].ok
                                             /\ threads[t].arg = <<qid>>}) <= 1

\* two calls for one id have both returned their review, and the history and
\* the growth history hold two records for it
C26_Witness ==
    /\ pc = "submit_decision"
    /\ \E qid \in QuestionIds :
        /\ \A t \in Threads : threads[t].pc = "done" /\ threads[t].ok
                                /\ threads[t].arg = <<qid>>
        /\ Cardinality(AnswersTo(qid)) = 2
        /\ Len(state.growth_history) = 2
        /\ qid \notin active_questions

\* a call that looks the id up after another call has popped it is rejected
C26_LateCallRejected ==
    [][\A t \in Threads :
        (pc = "submit_decision" /\ threads[t].pc = "idle" /\ threads'[t].pc = "provider")
            => threads'[t].arg[1] \in active_questions]_vars

(***************************************************************************)
(* C27: the two phases of freeze, expand and lift                          *)
(***************************************************************************)
TwoPhasePasses ==
    {"_replenish_freeze_charges", "_replenish_expand_charges", "_replenish_lift_charges"}

\* the charges the initial bonus of the pass named p is worth
InitialBonus(p) == IF p = "_replenish_lift_charges" THEN 1 ELSE 2

\* C27: a check of freeze, expand or lift made before the initial bonus grants
\* nothing while less than 10 seconds have elapsed, and else grants the initial
\* bonus (+2, +2, +1, within the cap), sets the granted flag and resets the
\* timestamp to the time of the check; a check made after it never clears the
\* flag and grants by whole intervals of 30, 20 and 20 seconds only
C27_TwoPhaseGrants ==
    [][(pc \in TwoPhasePasses /\ now' = now) =>
        LET elapsed == now - LastTickOf(pc, state)
            intervals == elapsed \div RegenInterval(pc)
        IN  IF InitialBonusDue(pc, state)
            THEN IF elapsed >= 10
                 THEN /\ ChargesOf(pc, state') =
                            Min(RegenCap(pc, state), ChargesOf(pc, state) + InitialBonus(pc))
                      /\ ~InitialBonusDue(pc, state')
                      /\ LastTickOf(pc, state') = now
                 ELSE state' = state
            ELSE /\ ~InitialBonusDue(pc, state')
                 /\ IF elapsed >= RegenInterval(pc)
                    THEN /\ ChargesOf(pc, state') =
                               Min(RegenCap(pc, state),
                                   ChargesOf(pc, state) + intervals * RegenGain(pc))
                         /\ LastTickOf(pc, state') =
                               LastTickOf(pc, state) + intervals * RegenInterval(pc)
                    ELSE state' = state]_vars

\* lift was checked at 10 seconds (initial bonus on an empty counter) and then
\* at 30: the check found one charge and the timestamp 10, and granted one
\* interval
C27_Witness ==
    /\ pc = "_replenish_lift_charges"
    /\ result.op = pc
    /\ result.at = <<1, 10>>
    /\ now = 30
    /\ state.ally_lift_initial_bonus_awarded
    /\ state.ally_lift_charges = 2
    /\ state.ally_lift_last_bonus_ts = 30

(***************************************************************************)
(* C28: the window of a dissolve                                           *)
(***************************************************************************)
\* start_decision(c) gets past its test (controller.py:445)
Startable(c) == c \in state.active_decisions

\* C28: a coordinate dissolved until restore_at cannot be started while
\* now < restore_at and can be started once now >= restore_at
C28_AsStated ==
    (pc = "serve") =>
        \A p \in state.dissolved_nodes :
            IF now < p[2] THEN ~Startable(p[1]) ELSE Startable(p[1])

\* the restore time of a node dissolved at 0 has come, nothing has been called
\* since, and start_decision would still refuse the node
C28_Witness ==
    /\ pc = "serve"
    /\ result.op = "dissolve" /\ result.ok
    /\ now = 15
    /\ \E p \in state.dissolved_nodes : p[2] = 15 /\ ~Startable(p[1])

\* a state poll at or after restore_at does put the coordinate back
C28_RestoredByPoll ==
    [][(pc = "serve" /\ now' = now /\ result'.op = "get_state") =>
        \A p \in state.dissolved_nodes :
            p[2] <= now => (p[1] \in state'.active_decisions /\ p \notin state'.dissolved_nodes)]_vars

(***************************************************************************)
(* C29: what a successful submit_decision leaves                           *)
(***************************************************************************)
\* the step is a successful submit_decision for the question that the call
\* before it, a start_decision, has just stored
SubmitOfJustStarted ==
    /\ result.op = "start_decision" /\ result.ok
    /\ CallOf("submit_decision") /\ result'.ok
    /\ result'.at[1] = result.reason

\* the answer to the question qid is applied with the provider's reply
AnswerApplied(qid, reply) ==
    LET value_delta == IF reply.values # << >> THEN reply.values
                       ELSE _build_value_delta(TagsOf(qid), reply.growth_delta)
    IN  /\ state'.age = state.age + reply.growth_delta
        /\ state'.total_growth = state.total_growth + reply.growth_delta
        /\ state'.value_dimensions =
                [d \in DOMAIN ZeroValues |-> state.value_dimensions[d] + value_delta[d]]
        /\ Len(state'.history) = Len(state.history) + 1
        /\ SubSeq(state'.history, 1, Len(state.history)) = state.history
        /\ state'.history[Len(state'.history)].question = qid
        /\ Len(state'.growth_history) = Len(state.growth_history) + 1
        /\ SubSeq(state'.growth_history, 1, Len(state.growth_history)) = state.growth_history
        /\ state'.growth_history[Len(state'.growth_history)].question_id = qid
        /\ qid \notin active_questions'

\* C29: after a successful submit_decision for the question started at c, age
\* and total growth are up by the growth delta, the value delta is added, the
\* history and the growth history are one record longer, the id is no longer
\* pending, and c is in visited_nodes
C29_AsStated ==
    [][SubmitOfJustStarted =>
        /\ \E reply \in ProviderReplies : AnswerApplied(result.reason, reply)
        /\ result.at \in state'.visited_nodes]_vars

\* everything C29 states but the visited node does hold
C29_AnswerApplied ==
    [][SubmitOfJustStarted =>
        \E reply \in ProviderReplies : AnswerApplied(result.reason, reply)]_vars

\* the one question started has been answered, in a session whose hero entered
\* no node: the node it was started at is not among the visited nodes
C29_Witness ==
    /\ result.op = "submit_decision" /\ result.ok
    /\ Len(state.history) = 1
    /\ Len(state.growth_history) = 1
    /\ active_questions = {}
    /\ state.visited_nodes = {}

(***************************************************************************)
(* C30: traps under the hero                                               *)
(***************************************************************************)
\* the traps on the hero's tile whose 60 seconds are not over
TrapsUnderHero ==
    SelectSeq(Unexpired(state, now),
              LAMBDA trap : <<trap.x, trap.y>> = state.current_position)

\* C30: once a step or a jump of the hero has succeeded, no unexpired trap is
\* on the hero's tile
C30_AsStated ==
    (result.op \in {"move", "jump"} /\ result.ok) => TrapsUnderHero = << >>

\* the hero has jumped onto a tile that holds a trap, and the trap is still
\* there with the health untouched
C30_Witness ==
    /\ result.op = "jump" /\ result.ok
    /\ TrapsUnderHero # << >>
    /\ state.hero_health = 100

\* a step of move_player does clear the tile
C30_StepClearsTile ==
    (result.op = "move" /\ result.ok) => TrapsUnderHero = << >>

(***************************************************************************)
(* C31: where a jump lands                                                 *)
(***************************************************************************)
\* the maze the jumps are made in: a row long enough for both distances, and
\* a second row so that walls stand between cells of the first
JumpWidth == 4

JumpHeight == 2

InitJump == GenStart(JumpWidth, JumpHeight)

NextJump ==
    \/ GenCarve
    \/ GenBacktrack
    \/ Construct
    \/ PlayTick
    \/ GetState
    \/ PlayJump

SpecJump == InitJump /\ [][NextJump]_vars

\* the cells of the maze two or three cells from c along d
JumpLandings(w, h, c, d) ==
    {p \in Cells(w, h) : \E n \in 2 .. 3 : p = Shift(c, d, n)}

C31_NoDestination ==
    /\ result.op = "jump" /\ ~result.ok /\ result.reason = "no_destination"
    /\ state.current_position = <<0, 0>>
    /\ state.jump_charges = 2

C32_LandedUnharmed ==
    /\ result.op = "lift_throw" /\ result.ok
    /\ ~result.at.hero_dead
    /\ state.current_position = <<2, 0>>
    /\ state.hero_health = 100

(***************************************************************************)
(* C33: lift_start before lift_throw                                       *)
(***************************************************************************)
PlayLiftStart == PlayConsume("lift_start")

\* the session of the two lift calls, made in either order
NextLift ==
    \/ GenCarve
    \/ GenBacktrack
    \/ Construct
    \/ PlayTick
    \/ GetState
    \/ PlayLiftStart
    \/ ThrowLift

SpecLift == Init /\ [][NextLift]_vars

\* C33: a lift_throw that changes the hero's position or health comes after a
\* lift_start call of the session
C33_AsStated ==
    [][(/\ CallOf("lift_throw")
        /\ \/ state'.current_position # state.current_position
           \/ state'.hero_health # state.hero_health)
       => "lift_start" \in used]_vars

\* the only calls of the session were lift_throw calls: the hero stands two
\* cells east of the start and no lift charge was ever there to take
C33_Witness ==
    /\ used = {"lift_throw"}
    /\ result.op = "lift_throw" /\ result.ok
    /\ state.current_position = <<2, 0>>
    /\ now = 0
    /\ state.ally_lift_charges = 0

\* lift_start does succeed once a charge has been regenerated
C33_StartSucceeds ==
    /\ result.op = "lift_start" /\ result.ok
    /\ state.ally_lift_charges < LIFT_CAP

(***************************************************************************)
(* C34: shield charges and the age                                         *)
(***************************************************************************)
\* C34: a call that leaves the age as it is does not raise shield_charges
C34_AsStated ==
    [][(/\ pc = "serve" /\ pc' = "serve"
        /\ state.shield_charges # Absent
        /\ state'.age = state.age)
       => state'.shield_charges <= state.shield_charges]_vars

\* a state query has answered while the shield activated at the start age is
\* still running, and the charge that activation took is back
C34_Witness ==
    /\ result.op = "get_state"
    /\ state.age = DEFAULT_START_AGE
    /\ state.shield_active_until # None
    /\ state.shield_active_until > now
    /\ state.shield_charges = 1

\* activate_shield alone does take the charge
C34_ChargeTaken ==
    /\ result.op = "activate_shield" /\ result.ok
    /\ state.shield_charges = 0

(***************************************************************************)
(* C35: the state restart_game returns                                     *)
(***************************************************************************)
\* the sessions GameController.__init__ can build at clock t from no save file
NewSessions(t, w, h, start_age) ==
    LET st0 == [GameState(t) EXCEPT !.age = start_age]
    IN  {InitPasses([st0 EXCEPT !.active_decisions = active], t, w, h, start_age) :
            active \in _init_active_decisions(st0, w, h)}

\* the fields of st that restart_game is to reset have their initial values
FreshFields(st, w, h, start_age) ==
    /\ st.age = start_age
    /\ st.value_dimensions = ZeroValues
    /\ st.history = << >>
    /\ st.growth_history = << >>
    /\ st.total_growth = 0
    /\ st.hero_health = 100
    /\ st.current_position = <<0, 0>>
    /\ st.traps = << >>
    /\ st.dissolved_nodes = {}
    /\ st.visited_nodes = {}
    /\ st.active_decisions \in _init_active_decisions(st, w, h)

\* the operations of ops find the counter in st that they find in a session
\* constructed at clock t
FreshCounters(ops, st, t, w, h, start_age) ==
    \E fresh \in NewSessions(t, w, h, start_age) :
        \A op \in ops : CounterAfterPass(op, st, t) = CounterAfterPass(op, fresh, t)

\* restart_game returns
RestartReturns == pc = "restart" /\ pc' = "serve"

\* C35: the state restart_game returns has the initial fields, and every
\* consuming operation finds the counter it finds in a new session
C35_AsStated ==
    [][RestartReturns =>
        /\ FreshFields(state', width', height', settings.start_age)
        /\ FreshCounters(ConsumingOps, state', now, width', height',
                         settings.start_age)]_vars

\* restart_game has returned with the age and the history reset, and dissolve
\* finds no charge although it finds one in a new session
C35_Witness ==
    /\ result.op = "restart"
    /\ state.age = settings.start_age
    /\ state.history = << >>
    /\ CounterAfterPass("dissolve", state, now) = 0
    /\ \A fresh \in NewSessions(now, width, height, settings.start_age) :
        CounterAfterPass("dissolve", fresh, now) = 1

\* everything but the dissolve counter is as in a new session
C35_FreshButDissolve ==
    [][RestartReturns =>
        /\ FreshFields(state', width', height', settings.start_age)
        /\ FreshCounters(ConsumingOps \ {"dissolve"}, state', now, width', height',
                         settings.start_age)]_vars

(***************************************************************************)
(* C36: questions pending over a restart                                   *)
(***************************************************************************)
\* the session in which decisions are started and answered before and after
\* a restart
NextRestart ==
    \/ GenCarve
    \/ GenBacktrack
    \/ Construct
    \/ StartDecisionWhen(PlayAllowed("decide"))
    \/ SubmitDecisionWhen(PlayAllowed("decide"))
    \/ RestartBeginWhen(PlayAllowed("restart"))
    \/ RestartFinish

SpecRestart == Init /\ [][NextRestart]_vars

\* C36: the submit_decision that directly follows a restart, whose id was
\* pending before the restart if it ever was, is rejected and leaves the new
\* state as it is
C36_AsStated ==
    [][(result.op = "restart" /\ CallOf("submit_decision"))
       => (~result'.ok /\ state' = state)]_vars

\* an answer was accepted after a restart though no decision has been started
\* since: all the re-sampled decisions are still active, and the new state
\* has grown by the answer
C36_Witness ==
    /\ "restart" \in used
    /\ result.op = "submit_decision" /\ result.ok
    /\ state.active_decisions = Cells(width, height)
    /\ Len(state.history) = 1
    /\ state.age > settings.start_age

\* restart_game leaves the pending questions as they are
C36_PendingKept ==
    [][RestartReturns => active_questions' = active_questions]_vars

(***************************************************************************)
(* C37: dissolve on a coordinate that is not a decision node               *)
(***************************************************************************)
\* dissolve_node is called with a charge in hand and does not succeed: the
\* coordinate is not in active_decisions
DissolveRefused ==
    /\ CallOf("dissolve")
    /\ CounterAfterPass("dissolve", state, now) > 0
    /\ ~result'.ok

\* C37: such a call is answered with the rejection "Not a decision node"
C37_AsStated ==
    [][DissolveRefused => result'.reason = "Not a decision node"]_vars

\* dissolve_node has ended in an AttributeError with the one charge of the new
\* session still there
C37_Witness ==
    /\ result.op = "dissolve" /\ ~result.ok
    /\ result.reason = "AttributeError"
    /\ state.ally_dissolve_charges = 1
    /\ state.dissolved_nodes = {}

\* the refused call takes no charge, records no dissolved node and leaves the
\* active decisions as they are
C37_NothingTaken ==
    [][DissolveRefused =>
        /\ state'.ally_dissolve_charges = CounterAfterPass("dissolve", state, now)
        /\ state'.dissolved_nodes = state.dissolved_nodes
        /\ state'.active_decisions = state.active_decisions]_vars

(***************************************************************************)
(* C38: the save file read back                                            *)
(***************************************************************************)
\* the constraints of the SaveData fields (models.py:76-112)
SaveDataValid(data) ==
    /\ data.hero_health \in 0 .. 100
    /\ \A k \in {"jump_charges", "jump_bonus_awarded", "ally_jump_charges",
                 "ally_freeze_charges", "ally_expand_charges", "ally_lift_charges",
                 "ally_blink_charges", "ally_trap_charges", "hero_escape_charges",
                 "shield_charges", "shield_last_age"} : data[k] >= 0

\* save.load_save: the SaveData of the file, or NoFile for None when there is
\* no file or model_validate raises (save.py:24-42)
load_save(file) ==
    IF file = NoFile THEN NoFile
    ELSE IF SaveDataValid(file) THEN file
    ELSE NoFile

\* the fields of the snapshot GameState.__init__ reads (state.py:14-52): all
\* but the three shield fields
LoadedFields == SavedFields \ {"shield_charges", "shield_last_age", "shield_active_until"}

\* GameState(save_data) constructed at clock t (state.py:13-52, 87-99): the
\* fields it reads are taken from the snapshot, the others are those of a new
\* state
GameStateOf(save_data, t) ==
    [k \in DOMAIN GameState(t) |->
        IF k \in LoadedFields THEN save_data[k] ELSE GameState(t)[k]]

\* run.py main with a save file that loads, then GameController.__init__;
\* generate_maze is given the seed of the file and builds the same maze
Reload ==
    /\ pc = "serve"
    /\ load_save(saved) # NoFile
    /\ LET st0 == GameStateOf(load_save(saved), now)
           sampled == IF st0.active_decisions = {}
                      THEN _init_active_decisions(st0, width, height)
                      ELSE {st0.active_decisions}
       IN  \E active \in sampled :
            state' = InitPasses([st0 EXCEPT !.active_decisions = active],
                                now, width, height, settings.start_age)
    /\ active_questions' = {}
    /\ result' = Ok("run")
    /\ UNCHANGED <<saved, concVars, rng, mazeVars, pc, now, settings, used>>

\* the session that is saved while it is played and started again from the file
NextLoad ==
    \/ GenCarve
    \/ GenBacktrack
    \/ Construct
    \/ PlayTick
    \/ PlayJump
    \/ PlayPlaceTrap
    \/ PlayDissolve
    \/ PlayActivateShield
    \/ Reload

SpecLoad == InitSave /\ [][NextLoad]_vars

\* the counter and the timestamp of dissolve
DissolveFields == {"ally_dissolve_charges", "ally_dissolve_last_bonus_ts"}

\* the fields of the state read back from the file st is saved to equal those
\* of st
RoundTrip(fields, st, file, t) ==
    LET written == save_now(st, file)
        back == GameStateOf(load_save(written), t)
    IN  /\ load_save(written) # NoFile
        /\ \A k \in fields : back[k] = st[k]

\* C38: a state of the running session, saved and read back into a new
\* GameState, keeps every field of the snapshot and the counter and timestamp
\* of dissolve
C38_AsStated ==
    pc = "serve" => RoundTrip(SavedFields \cup DissolveFields, state, saved, now)

\* the session was started again from a file written while the shield was
\* running: the file says so, and in the new session the shield is off
C38_Witness ==
    /\ result.op = "run"
    /\ saved # NoFile
    /\ saved.shield_active_until > now
    /\ state.shield_active_until = None

\* the session was started again right after its one dissolve charge was
\* spent on a decision, and the charge is there again
C38_DissolveChargeBack ==
    /\ result.op = "run"
    /\ now = 0
    /\ state.active_decisions # Cells(width, height)
    /\ state.ally_dissolve_charges = 1

\* every field that GameState.__init__ reads comes back as it was saved
C38_LoadedFieldsKept ==
    pc = "serve" => RoundTrip(LoadedFields, state, saved, now)

(***************************************************************************)
(* C39: every call returns                                                 *)
(***************************************************************************)
\* the calls of the threads on one session: one consuming operation,
\* start_decision or submit_decision
InitLive == InitConc \/ InitSubmit

NextLive ==
    \E t \in Threads :
        \/ ThreadCall(t)
        \/ ThreadRead(t)
        \/ ThreadWrite(t)
        \/ ThreadStore(t)
        \/ SubmitCall(t)
        \/ SubmitReturn(t)

\* a thread inside a call is scheduled again, and a provider call returns
LiveFairness ==
    \A t \in Threads :
        /\ WF_vars(ThreadRead(t))
        /\ WF_vars(ThreadWrite(t))
        /\ WF_vars(ThreadStore(t))
        /\ WF_vars(SubmitReturn(t))

SpecLive == InitLive /\ [][NextLive]_vars /\ LiveFairness

\* the same with providers that may never answer: no fairness for the steps
\* that follow a provider call
SlowFairness ==
    \A t \in Threads : WF_vars(ThreadRead(t)) /\ WF_vars(ThreadWrite(t))

SpecSlow == InitLive /\ [][NextLive]_vars /\ SlowFairness

\* thread t is inside a with block of its call
InWithBlock(t) == threads[t].pc \in {"read", "write"} /\ TakesLock(pc)

\* thread t has called and not returned
Invoked(t) == threads[t].pc \in {"read", "write", "provider"}

\* C39: the lock is held only by a thread inside a with block, so not by one
\* that has returned or raised, nor by one that waits for its provider; and
\* every call a thread has made returns
C39_EveryCallReturns ==
    /\ [](\A t \in Threads : lock = t => InWithBlock(t))
    /\ \A t \in Threads : Invoked(t) ~> (threads[t].pc = "done")

\* one thread waits for the provider of start_decision while the other has
\* entered the with block of its own call
C39_Witness ==
    /\ pc = "start_decision"
    /\ threads[1].pc = "provider"
    /\ lock = 2
    /\ threads[2].pc = "read"

\* both calls of start_decision have returned, one with a question and one
\* with a rejection
C39_BothReturned ==
    /\ pc = "start_decision"
    /\ \A t \in Threads : threads[t].pc = "done"
    /\ threads[1].ok /\ ~threads[2].ok

\* while a provider never answers, a thread inside a with block still leaves
\* it, and the lock comes free
C39_LockComesFree ==
    \A t \in Threads : (lock = t) ~> (lock = NoThread)

====
